---------------------------- MODULE Spec2Model ----------------------------
(***************************************************************************)
(* net-weaver: collection orchestration (routes/collect), neighbor         *)
(* persistence and auto-link inference (routes/collect, routes/topology),  *)
(* the SSH session service and the relational store they write to.        *)
(*                                                                         *)
(* Every request handler is a process; one action is the resolution of    *)
(* one awaited operation (a store query, an SSH operation) together with  *)
(* the synchronous code that follows it up to the next await.             *)
(***************************************************************************)
EXTENDS Integers, Sequences, FiniteSets, TLC

\* ------------------------------------------------------------------ bounds
\* Total number of requests (handler invocations) in a behaviour.
MaxOps == 3
\* Largest reading of the millisecond wall clock.
MaxClock == 2
MaxFlowOps == 2
\* The lines of an output after its first line.
MaxLines == 2
\* The nodes of a layout.
MaxNodes == 2
\* The devices of a topology that is laid out.
MaxDevices == 5

\* ---------------------------------------------------------------- strings
\* A string is a sequence of one-character strings.
\* SQL LOWER() / JS case folding (/i), over the letters A-Z.
Lower(c) ==
  CASE c = "A" -> "a" [] c = "B" -> "b" [] c = "C" -> "c" [] c = "D" -> "d"
    [] c = "E" -> "e" [] c = "F" -> "f" [] c = "G" -> "g" [] c = "H" -> "h"
    [] c = "I" -> "i" [] c = "J" -> "j" [] c = "K" -> "k" [] c = "L" -> "l"
    [] c = "M" -> "m" [] c = "N" -> "n" [] c = "O" -> "o" [] c = "P" -> "p"
    [] c = "Q" -> "q" [] c = "R" -> "r" [] c = "S" -> "s" [] c = "T" -> "t"
    [] c = "U" -> "u" [] c = "V" -> "v" [] c = "W" -> "w" [] c = "X" -> "x"
    [] c = "Y" -> "y" [] c = "Z" -> "z"
    [] OTHER -> c

LowerStr(s) == [i \in 1..Len(s) |-> Lower(s[i])]

\* JS: s.split('.')[0], the text before the first "." (all of s without one).
SplitFirstSegment(s) ==
  IF \E i \in 1..Len(s) : s[i] = "."
    THEN LET k == CHOOSE i \in 1..Len(s) :
                    s[i] = "." /\ \A j \in 1..(i-1) : s[j] # "."
         IN  SubSeq(s, 1, k - 1)
    ELSE s

\* SQL: hay LIKE '%' || needle || '%' (the names hold no LIKE wildcard).
LikeContains(hay, needle) ==
  \E k \in 0..(Len(hay) - Len(needle)) :
     SubSeq(hay, k + 1, k + Len(needle)) = needle

SetMin(S) == CHOOSE x \in S : \A y \in S : x <= y
SetMax(S) == CHOOSE x \in S : \A y \in S : x >= y

\* \s of the regular expressions, over the whitespace the outputs use.
IsSpace(c) == c \in {" ", "\t"}
IsDigit(c) == c \in {"0", "1", "2", "3", "4", "5", "6", "7", "8", "9"}

\* JS: s.trim()
Trim(s) ==
  LET keep == {i \in 1..Len(s) : ~IsSpace(s[i])}
  IN  IF keep = {} THEN <<>> ELSE SubSeq(s, SetMin(keep), SetMax(keep))

\* JS: s.startsWith(pre)
StartsWith(s, pre) == Len(pre) <= Len(s) /\ SubSeq(s, 1, Len(pre)) = pre

\* JS: s.split(/\s{k,}/): the leftmost run of at least k whitespace
\* characters is taken whole as a separator, and so on in the rest.
RECURSIVE SplitOnSpaces(_, _)
SplitOnSpaces(s, k) ==
  LET starts == {i \in 1..(Len(s) - k + 1) : \A j \in i..(i + k - 1) : IsSpace(s[j])}
  IN  IF starts = {} THEN <<s>>
      ELSE LET i == SetMin(starts)
               after == {j \in i..Len(s) : ~IsSpace(s[j])}
               e == IF after = {} THEN Len(s) + 1 ELSE SetMin(after)
           IN  <<SubSeq(s, 1, i - 1)>> \o SplitOnSpaces(SubSeq(s, e, Len(s)), k)

\* The number of digits s holds from position i on.
DigitRun(s, i) ==
  IF i < 1 \/ i > Len(s) \/ ~IsDigit(s[i]) THEN 0
  ELSE LET stop == {j \in i..Len(s) : ~IsDigit(s[j])}
       IN  IF stop = {} THEN Len(s) - i + 1 ELSE SetMin(stop) - i

\* \d{1,3}\. at position i: the position after the dot, 0 without a match.
DigitsDot(s, i) ==
  LET n == DigitRun(s, i)
  IN  IF i >= 1 /\ n \in 1..3 /\ i + n <= Len(s) /\ s[i + n] = "." THEN i + n + 1 ELSE 0

\* (\d{1,3}\.\d{1,3}\.\d{1,3}\.\d{1,3}) at position i: the last position of
\* the match, 0 without one.
DottedQuadAt(s, i) ==
  LET p == DigitsDot(s, DigitsDot(s, DigitsDot(s, i)))
      n == DigitRun(s, p)
  IN  IF p > 0 /\ n >= 1 THEN p + (IF n > 3 THEN 3 ELSE n) - 1 ELSE 0

\* JS: s.match(/(\d{1,3}\.\d{1,3}\.\d{1,3}\.\d{1,3})/): the leftmost match,
\* <<>> for undefined.
FirstDottedQuad(s) ==
  LET at == {i \in 1..Len(s) : DottedQuadAt(s, i) > 0}
  IN  IF at = {} THEN <<>> ELSE SubSeq(s, SetMin(at), DottedQuadAt(s, SetMin(at)))

\* ------------------------------------------------------------------- inet
\* A reported address is text: the dotted address and an optional "/len".
NoIP == [addr |-> "", mask |-> ""]
\* A stored INET value; NullInet is SQL NULL.
NullInet == [addr |-> "", len |-> 0]
\* Text to INET (column input): a host address without "/len" gets /32.
InetIn(t) == IF t = NoIP THEN NullInet ELSE [addr |-> t.addr, len |-> 32]
\* inet_in accepts a dotted quad with an optional prefix length; any other
\* text is "invalid input syntax for type inet" and the statement fails.
DottedQuads == {"10.0.0.1", "10.0.0.2", "10.0.0.3"}
InetSyntaxOK(t) == t = NoIP \/ (t.addr \in DottedQuads /\ t.mask \in {"", "/32"})
\* INET to text by an explicit cast (ip_address::text): the cast never
\* suppresses the netmask, a host address reads "a.b.c.d/32".
InetCastText(v) == [addr |-> v.addr, mask |-> "/32"]

\* ------------------------------------------------------- device registry
\* network_devices rows: the registry is written by device management only.
NoDevice == 0
DeviceIds == {1, 2, 3}
Registry ==
  [d \in DeviceIds |->
     CASE d = 1 -> [name |-> <<"S","W","1">>, hostname |-> <<"c","1">>,
                    ip_address |-> [addr |-> "10.0.0.1", len |-> 32],
                    vendor |-> "huawei",
                    ssh_username |-> "admin", ssh_password_encrypted |-> "pw"]
       [] d = 2 -> [name |-> <<"S","W","2">>, hostname |-> <<"c","2">>,
                    ip_address |-> [addr |-> "10.0.0.2", len |-> 32],
                    vendor |-> "mikrotik",
                    ssh_username |-> "admin", ssh_password_encrypted |-> "pw"]
       [] d = 3 -> [name |-> <<"S","W","2","1">>, hostname |-> <<"e","3">>,
                    ip_address |-> [addr |-> "10.0.0.3", len |-> 32],
                    vendor |-> "other",
                    ssh_username |-> "", ssh_password_encrypted |-> ""]]

\* WHERE LOWER(hostname) = LOWER($1) OR LOWER(name) = LOWER($1)
\*    OR LOWER(hostname) LIKE LOWER($2) OR LOWER(name) LIKE LOWER($2)
\* with $1 = searchName and $2 = '%' || searchName || '%'.
NameQueryMatches(d, searchName) ==
  LET s == LowerStr(searchName)
      h == LowerStr(Registry[d].hostname)
      n == LowerStr(Registry[d].name)
  IN  \/ h = s
      \/ n = s
      \/ LikeContains(h, s)
      \/ LikeContains(n, s)

\* The rows of the name lookup for a reported remote name.
NameQueryRows(remoteDeviceName) ==
  {d \in DeviceIds : NameQueryMatches(d, SplitFirstSegment(remoteDeviceName))}

\* WHERE ip_address::text = $1
IPQueryRows(remoteIP) ==
  {d \in DeviceIds : InetCastText(Registry[d].ip_address) = remoteIP}

\* queryOne: rows[0] or null. The lookups carry no ORDER BY, so any row of
\* the result may come first.
QueryOne(rows) == IF rows = {} THEN {NoDevice} ELSE rows


\* ------------------------------------------------------------------ state
VARIABLES
  devStatus,   \* network_devices: id -> the row (registry columns, status, model)
  neighbors,   \* topology_neighbors: set of rows
  links,       \* topology_links: rows in insertion order
  interfaces,  \* device_interfaces: set of rows
  history,     \* collection_history: set of rows
  now,         \* reading of the wall clock (new Date()), in milliseconds
  opCount,     \* requests started so far (also the source of fresh ids)
  linkSeq,     \* link rows inserted so far (fresh topology_links ids)
  procs        \* request handlers in flight: their locals and position

vars == <<devStatus, neighbors, links, interfaces, history, now, opCount,
          linkSeq, procs>>

Procs == {"h1", "h2"}
Protocols == {"lldp", "ospf"}
NoTime == -1

\* ------------------------------------------------------------ SSHService
\* client: this.client is non-null; connected: this.connected.
SSHNew == [client |-> FALSE, connected |-> FALSE]

\* disconnect(): end the client when there is one, forget it.
SSHDisconnect(s) ==
  IF s.client THEN [client |-> FALSE, connected |-> FALSE] ELSE s

\* connect(): the session after the promise settled, by what settled it.
\*   "ready":   the 'ready' event, resolve(true)
\*   "error":   the 'error' event, reject(err); the client is kept
\*   "timeout": the connection timer, this.disconnect() then reject
SSHConnect(s, outcome) ==
  CASE outcome = "ready"   -> [client |-> TRUE, connected |-> TRUE]
    [] outcome = "error"   -> [client |-> TRUE, connected |-> FALSE]
    [] outcome = "timeout" -> SSHDisconnect([client |-> TRUE, connected |-> FALSE])

ConnectOutcomes == {"ready", "error", "timeout"}
\* The message of the error connect() rejects with.
ConnectError(outcome) ==
  IF outcome = "timeout" THEN "Connection timeout" ELSE "ssh error"

\* What happens on the wire while a command is asked for:
\*   "ok": the stream closes normally; "execError": exec's callback gets err;
\*   "timeout": the command timer fires; "closed": the connection's 'close'
\*   event came before the command was issued.
ExecOutcomes == {"ok", "execError", "timeout", "closed"}

\* The session after executeCommand under that outcome.
SSHAfterExec(s, outcome) ==
  IF outcome = "closed" THEN [s EXCEPT !.connected = FALSE] ELSE s

\* The command timer resolving without closing the stream.
StreamsAfterExecNoClose(n, outcome) ==
  IF outcome = "timeout" THEN n + 1 ELSE n

\* The exec streams of the session that are still open when executeCommand
\* resolves: the stream has closed by itself ('close'), was never opened
\* (err, not connected), or is closed by the command timer (stream.close())
\* before it resolves.
StreamsAfterExec(n, outcome) ==
  CASE outcome = "ok" -> n
    [] outcome = "timeout" -> (n + 1) - 1
    [] OTHER -> n

\* executeCommand(): SSHCommandResult.success.
SSHExecSuccess(s, outcome) ==
  /\ SSHAfterExec(s, outcome).client
  /\ SSHAfterExec(s, outcome).connected
  /\ outcome = "ok"

\* What the peer does while connect() waits: it completes the handshake,
\* fails it (refused, unreachable, authentication), or stays silent.
ConnectWire == {"ready", "error", "silent"}

\* What settles the promise of connect(): the connection timer turns silence
\* into a rejection.
ConnectResolution(w) == IF w = "silent" THEN "timeout" ELSE w

\* What the peer does while executeCommand() waits:
\*   "ok": the stream opens and closes; "execError": the channel is refused;
\*   "silent": the stream opens and never closes; "closed": the connection
\*   was closed before the command; "noReply": the channel request is never
\*   answered, the keepalive configured by connect() ends the connection and
\*   the pending exec callback gets the error.
ExecWire == {"ok", "execError", "silent", "closed", "noReply"}

\* executeCommand() with the command timer never armed.
ExecResolutionNoTimer(w) ==
  CASE w = "silent" -> "none"
    [] w = "noReply" -> "execError"
    [] OTHER -> w

\* What settles the promise of executeCommand(): the command timer turns a
\* stream that never closes into a timeout result.
ExecResolution(w) ==
  CASE w = "silent" -> "timeout"
    [] w = "noReply" -> "execError"
    [] OTHER -> w

\* ------------------------------------------------------------- the store
\* The conflict target with the remote name added to it.
NeighborConflictKeyWithName(r) ==
  <<r.local_device_id, r.local_interface, r.discovery_protocol,
    r.remote_device_name>>

\* ON CONFLICT (local_device_id, local_interface, discovery_protocol)
NeighborConflictKey(r) ==
  <<r.local_device_id, r.local_interface, r.discovery_protocol>>

\* The upsert with discovered_at in the SET list as well.
UpsertNeighborAllColumns(tbl, row) ==
  {r \in tbl : NeighborConflictKey(r) # NeighborConflictKey(row)} \cup
  { [row EXCEPT !.remote_device_id =
       IF \E r \in tbl : NeighborConflictKey(r) = NeighborConflictKey(row)
         THEN (CHOOSE r \in tbl :
                 NeighborConflictKey(r) = NeighborConflictKey(row)).remote_device_id
         ELSE row.remote_device_id] }

\* INSERT INTO topology_neighbors ... ON CONFLICT (...) DO UPDATE SET
\* remote_device_name, remote_interface, remote_ip, raw_data, last_updated.
UpsertNeighbor(tbl, row) ==
  IF \E r \in tbl : NeighborConflictKey(r) = NeighborConflictKey(row)
    THEN { IF NeighborConflictKey(r) = NeighborConflictKey(row)
             THEN [r EXCEPT !.remote_device_name = row.remote_device_name,
                            !.remote_interface = row.remote_interface,
                            !.remote_ip = row.remote_ip,
                            !.raw_data = row.raw_data,
                            !.last_updated = row.last_updated]
             ELSE r : r \in tbl }
    ELSE tbl \cup {row}

\* The row an LLDP observation inserts.
LLDPRow(deviceId, n, ts) ==
  [local_device_id |-> deviceId, local_interface |-> n.localInterface,
   discovery_protocol |-> "lldp",
   remote_device_name |-> n.remoteDeviceName,
   remote_interface |-> n.remoteInterface,
   remote_ip |-> InetIn(n.remoteIP), raw_data |-> n.rawData,
   remote_device_id |-> NoDevice, discovered_at |-> ts, last_updated |-> ts]

\* The row an OSPF observation inserts.
OSPFRow(deviceId, n, ts) ==
  [local_device_id |-> deviceId, local_interface |-> n.interface,
   discovery_protocol |-> "ospf",
   remote_device_name |-> n.neighborId,
   remote_interface |-> "",
   remote_ip |-> InetIn(n.neighborIP), raw_data |-> n.rawData,
   remote_device_id |-> NoDevice, discovered_at |-> ts, last_updated |-> ts]

\* UPDATE topology_neighbors SET remote_device_id = $1 WHERE
\* local_device_id = $2 AND local_interface = $3 AND discovery_protocol = 'lldp'
SetRemoteDeviceId(tbl, deviceId, localInterface, remoteDeviceId) ==
  { IF /\ r.local_device_id = deviceId
       /\ r.local_interface = localInterface
       /\ r.discovery_protocol = "lldp"
      THEN [r EXCEPT !.remote_device_id = remoteDeviceId]
      ELSE r : r \in tbl }

\* The link lookup with the reverse direction left out.
ExistingLinkRowsOneWay(ls, a, b) ==
  { i \in 1..Len(ls) :
      ls[i].source_device_id = a /\ ls[i].target_device_id = b }

\* SELECT id FROM topology_links WHERE (source = $1 AND target = $2)
\*                                   OR (source = $2 AND target = $1)
ExistingLinkRows(ls, a, b) ==
  { i \in 1..Len(ls) :
      \/ ls[i].source_device_id = a /\ ls[i].target_device_id = b
      \/ ls[i].source_device_id = b /\ ls[i].target_device_id = a }

NoLink == 0
\* queryOne over the link lookup: the id of some row of the result, or null.
ExistingLinkIds(ls, a, b) ==
  IF ExistingLinkRows(ls, a, b) = {} THEN {NoLink}
  ELSE { ls[i].id : i \in ExistingLinkRows(ls, a, b) }

\* INSERT INTO topology_links (inference: link_type 'discovered', metadata
\* auto_created; manual: link_type 'physical', metadata {}).
LinkRow(id, src, srcIf, tgt, tgtIf, auto) ==
  [id |-> id, source_device_id |-> src, source_interface |-> srcIf,
   target_device_id |-> tgt, target_interface |-> tgtIf, auto_created |-> auto]

\* COALESCE($1, old): a JS null or undefined parameter is SQL NULL; the
\* empty string is a value.
NullText == "<null>"
Coalesce(v, old) == IF v = NullText THEN old ELSE v

\* UPDATE topology_links SET source_interface = COALESCE($1, source_interface),
\* target_interface = COALESCE($2, target_interface), status = 'up' WHERE id = $4
RefreshLink(ls, id, localInterface, remoteInterface) ==
  [i \in 1..Len(ls) |->
     IF ls[i].id = id
       THEN [ls[i] EXCEPT
               !.source_interface = Coalesce(localInterface, @),
               !.target_interface = Coalesce(remoteInterface, @)]
       ELSE ls[i]]

\* DELETE FROM topology_links WHERE id = $1
RECURSIVE DeleteLinkRow(_, _)
DeleteLinkRow(ls, id) ==
  IF ls = <<>> THEN <<>>
  ELSE IF Head(ls).id = id THEN DeleteLinkRow(Tail(ls), id)
  ELSE <<Head(ls)>> \o DeleteLinkRow(Tail(ls), id)

\* JS: x || null
OrNull(x) == IF x = "" THEN NullText ELSE x

\* INSERT INTO device_interfaces ... ON CONFLICT (device_id, name) DO UPDATE
UpsertInterface(tbl, row) ==
  IF \E r \in tbl : r.device_id = row.device_id /\ r.name = row.name
    THEN { IF r.device_id = row.device_id /\ r.name = row.name
             THEN [r EXCEPT !.oper_status = row.oper_status]
             ELSE r : r \in tbl }
    ELSE tbl \cup {row}

\* The history update with the device in the WHERE clause in place of the id.
SetHistoryByDevice(tbl, id, status, msg) ==
  { IF \E h \in tbl : h.id = id /\ h.device_id = r.device_id
      THEN [r EXCEPT !.status = status, !.error_message = msg]
      ELSE r : r \in tbl }

\* UPDATE collection_history SET status = ..., error_message = ... WHERE id
SetHistory(tbl, id, status, msg) ==
  { IF r.id = id THEN [r EXCEPT !.status = status, !.error_message = msg]
    ELSE r : r \in tbl }

\* --------------------------------------------------------- request locals
\* A parse result that was never assigned (undefined) or a list.
Absent == [present |-> FALSE, items |-> <<>>]
Parsed(items) == [present |-> TRUE, items |-> items]
NonEmpty(r) == r.present /\ Len(r.items) > 0
NoSys == [present |-> FALSE, model |-> NullText]

\* How the device behaves during the operation a request waits for: `at` is
\* the suspension point the behaviour belongs to.
NoWire == [at |-> "", w |-> ""]

\* The device row a handler read when it started (`device`), before any.
NoRow == [hostname |-> <<>>, model |-> NullText, vendor |-> ""]

\* A call of a pure function evaluated in the slot: the function, its
\* argument and what it returned.
NoCall == [fn |-> "", arg |-> [vendor |-> "", rawOutput |-> <<>>], ret |-> <<>>]

IdleProc ==
  [kind |-> "idle", pc |-> "idle", deviceId |-> NoDevice, types |-> <<>>,
   historyId |-> 0, after |-> "idle", opened |-> FALSE, ssh |-> SSHNew,
   success |-> FALSE,
   error |-> "", lldp |-> Absent, ospf |-> Absent, ifaces |-> Absent,
   sys |-> NoSys, executed |-> <<>>, idx |-> 1, remoteDevice |-> NoDevice,
   existingLink |-> NoLink, ts |-> NoTime, queue |-> <<>>, created |-> 0,
   skipped |-> 0, http |-> 0, results |-> <<>>, wire |-> NoWire,
   streams |-> 0, device |-> NoRow, call |-> NoCall,
   cmdResult |-> [success |-> FALSE]]

Free(p) == procs[p].pc \in {"idle", "done"}
\* The locals of a request that starts in slot p: `after` keeps the kind of
\* the request that was served before it.
Fresh(p, kind) == [IdleProc EXCEPT !.kind = kind, !.after = procs[p].kind]
At(p, kind, pc) == procs[p].kind = kind /\ procs[p].pc = pc
Includes(types, t) == \E i \in 1..Len(types) : types[i] = t

\* The command block with the system command moved to the front.
CmdOrderSystemFirst == <<"system", "lldp", "ospf", "interfaces">>

\* The commands of a collection, in the order the handler tests for them.
CmdOrder == <<"lldp", "ospf", "interfaces", "system">>
ExecPc(t) ==
  CASE t = "lldp" -> "execLLDP"
    [] t = "ospf" -> "execOSPF"
    [] t = "interfaces" -> "execInterfaces"
    [] t = "system" -> "execSystem"

\* The persistence step that follows the LLDP loop, the OSPF loop, the
\* command block.
AfterOSPFPc(pr) == IF NonEmpty(pr.ifaces) THEN "upsertIface" ELSE "updateDevice"
AfterLLDPPc(pr) == IF NonEmpty(pr.ospf) THEN "upsertOSPF" ELSE AfterOSPFPc(pr)
FirstPersistPc(pr) == IF NonEmpty(pr.lldp) THEN "upsertLLDP" ELSE AfterLLDPPc(pr)

\* result.success = true; ssh.disconnect(); then the first store write, whose
\* timestamp parameter is read as the query is issued.
FinishCommands(pr, clock) ==
  [pr EXCEPT !.success = TRUE, !.ssh = SSHDisconnect(@), !.streams = 0,
             !.idx = 1, !.pc = FirstPersistPc(pr), !.ts = clock]

\* The command block left for catch (sshError) when a command failed.
AfterCommandAbortOnFailure(pr, k, clock) ==
  IF k > 0 /\ ~pr.cmdResult.success
    THEN [pr EXCEPT !.ssh = SSHDisconnect(@), !.success = FALSE,
                    !.error = "command failed", !.pc = "failHistory"]
  ELSE IF \E j \in (k+1)..Len(CmdOrder) : Includes(pr.types, CmdOrder[j])
    THEN LET j == CHOOSE j \in (k+1)..Len(CmdOrder) :
                    /\ Includes(pr.types, CmdOrder[j])
                    /\ \A i \in (k+1)..(j-1) : ~Includes(pr.types, CmdOrder[i])
         IN  [pr EXCEPT !.pc = ExecPc(CmdOrder[j])]
    ELSE FinishCommands(pr, clock)

\* After the command at position k of CmdOrder: the next requested command,
\* or the end of the command block.
AfterCommand(pr, k, clock) ==
  IF \E j \in (k+1)..Len(CmdOrder) : Includes(pr.types, CmdOrder[j])
    THEN LET j == CHOOSE j \in (k+1)..Len(CmdOrder) :
                    /\ Includes(pr.types, CmdOrder[j])
                    /\ \A i \in (k+1)..(j-1) : ~Includes(pr.types, CmdOrder[i])
         IN  [pr EXCEPT !.pc = ExecPc(CmdOrder[j])]
    ELSE FinishCommands(pr, clock)

\* for (const neighbor of result.lldpNeighbors): on to the next record.
NextLLDPNeighbor(pr, clock) ==
  IF pr.idx < Len(pr.lldp.items)
    THEN [pr EXCEPT !.idx = @ + 1, !.pc = "upsertLLDP", !.ts = clock,
                    !.remoteDevice = NoDevice, !.existingLink = NoLink]
    ELSE [pr EXCEPT !.idx = 1, !.pc = AfterLLDPPc(pr), !.ts = clock,
                    !.remoteDevice = NoDevice, !.existingLink = NoLink]

\* ------------------------------------------- POST /api/collect/:deviceId
\* The request arrives; SELECT * FROM network_devices WHERE id = $1.
CollectStart(p, deviceId, types) ==
  /\ Free(p)
  /\ opCount < MaxOps
  /\ opCount' = opCount + 1
  /\ procs' = [procs EXCEPT ![p] =
       IF deviceId \in DeviceIds
         THEN [Fresh(p, "collect") EXCEPT !.pc = "insertHistory",
                 !.deviceId = deviceId, !.types = types,
                 !.historyId = opCount + 1]
         ELSE [Fresh(p, "collect") EXCEPT !.pc = "done",
                 !.deviceId = deviceId, !.types = types, !.http = 404]]
  /\ UNCHANGED <<devStatus, neighbors, links, interfaces, history, now, linkSeq>>

\* INSERT INTO collection_history (... status 'running' ...)
CollectInsertHistory(p) ==
  /\ At(p, "collect", "insertHistory")
  /\ history' = history \cup
       {[id |-> procs[p].historyId, device_id |-> procs[p].deviceId,
         collection_type |-> procs[p].types, status |-> "running",
         error_message |-> ""]}
  /\ procs' = [procs EXCEPT ![p].pc = "connect"]
  /\ UNCHANGED <<devStatus, neighbors, links, interfaces, now, opCount, linkSeq>>

\* await ssh.connect(...): resolved, or rejected into catch (sshError), which
\* disconnects and records the failure.
CollectConnect(p, outcome) ==
  /\ At(p, "collect", "connect")
  /\ procs' = [procs EXCEPT ![p] =
       IF outcome = "ready"
         THEN AfterCommand([@ EXCEPT !.ssh = SSHConnect(@, outcome),
                                     !.opened = TRUE], 0, now)
         ELSE [@ EXCEPT !.ssh = SSHDisconnect(SSHConnect(@, outcome)),
                        !.success = FALSE, !.error = ConnectError(outcome),
                        !.pc = "failHistory"]]
  /\ UNCHANGED <<devStatus, neighbors, links, interfaces, history, now, opCount, linkSeq>>

\* await ssh.executeCommand(getLLDPNeighbors); the result is parsed on success.
CollectExecLLDP(p, outcome, parsed) ==
  /\ At(p, "collect", "execLLDP")
  /\ procs' = [procs EXCEPT ![p] =
       AfterCommand(
         [@ EXCEPT !.ssh = SSHAfterExec(@, outcome),
                   !.streams = StreamsAfterExec(@, outcome),
                   !.executed = Append(@, "lldp"),
                   !.cmdResult = [success |-> SSHExecSuccess(procs[p].ssh, outcome)],
                   !.lldp = IF SSHExecSuccess(procs[p].ssh, outcome)
                              THEN Parsed(parsed) ELSE Absent], 1, now)]
  /\ UNCHANGED <<devStatus, neighbors, links, interfaces, history, now, opCount, linkSeq>>

\* await ssh.executeCommand(getOSPFNeighbors)
CollectExecOSPF(p, outcome, parsed) ==
  /\ At(p, "collect", "execOSPF")
  /\ procs' = [procs EXCEPT ![p] =
       AfterCommand(
         [@ EXCEPT !.ssh = SSHAfterExec(@, outcome),
                   !.streams = StreamsAfterExec(@, outcome),
                   !.executed = Append(@, "ospf"),
                   !.cmdResult = [success |-> SSHExecSuccess(procs[p].ssh, outcome)],
                   !.ospf = IF SSHExecSuccess(procs[p].ssh, outcome)
                              THEN Parsed(parsed) ELSE Absent], 2, now)]
  /\ UNCHANGED <<devStatus, neighbors, links, interfaces, history, now, opCount, linkSeq>>

\* await ssh.executeCommand(getInterfaces)
CollectExecInterfaces(p, outcome, parsed) ==
  /\ At(p, "collect", "execInterfaces")
  /\ procs' = [procs EXCEPT ![p] =
       AfterCommand(
         [@ EXCEPT !.ssh = SSHAfterExec(@, outcome),
                   !.streams = StreamsAfterExec(@, outcome),
                   !.executed = Append(@, "interfaces"),
                   !.cmdResult = [success |-> SSHExecSuccess(procs[p].ssh, outcome)],
                   !.ifaces = IF SSHExecSuccess(procs[p].ssh, outcome)
                                THEN Parsed(parsed) ELSE Absent], 3, now)]
  /\ UNCHANGED <<devStatus, neighbors, links, interfaces, history, now, opCount, linkSeq>>

\* await ssh.executeCommand(getSystemInfo); parseSystemInfo gives an object.
CollectExecSystem(p, outcome, model) ==
  /\ At(p, "collect", "execSystem")
  /\ procs' = [procs EXCEPT ![p] =
       AfterCommand(
         [@ EXCEPT !.ssh = SSHAfterExec(@, outcome),
                   !.streams = StreamsAfterExec(@, outcome),
                   !.executed = Append(@, "system"),
                   !.cmdResult = [success |-> SSHExecSuccess(procs[p].ssh, outcome)],
                   !.sys = IF SSHExecSuccess(procs[p].ssh, outcome)
                             THEN [present |-> TRUE, model |-> model]
                             ELSE NoSys], 4, now)]
  /\ UNCHANGED <<devStatus, neighbors, links, interfaces, history, now, opCount, linkSeq>>

\* The LLDP record the loop is at.
CurLLDP(p) == procs[p].lldp.items[procs[p].idx]

\* A statement of the persistence block failed: control is in
\* catch (sshError), which disconnects and records the failure.
StoreThrew(pr, msg) ==
  [pr EXCEPT !.ssh = SSHDisconnect(@), !.success = FALSE, !.error = msg,
             !.pc = "failHistory"]

\* INSERT INTO topology_neighbors ... 'lldp' ... ON CONFLICT ... DO UPDATE
CollectUpsertLLDP(p) ==
  /\ At(p, "collect", "upsertLLDP")
  /\ IF InetSyntaxOK(CurLLDP(p).remoteIP)
       THEN /\ neighbors' = UpsertNeighbor(neighbors,
                 LLDPRow(procs[p].deviceId, CurLLDP(p), procs[p].ts))
            /\ procs' = [procs EXCEPT ![p] =
                 IF CurLLDP(p).remoteDeviceName # <<>>
                   THEN [@ EXCEPT !.pc = "resolveName"]
                   ELSE IF CurLLDP(p).remoteIP # NoIP
                     THEN [@ EXCEPT !.pc = "resolveIP"]
                     ELSE NextLLDPNeighbor(@, now)]
       ELSE /\ neighbors' = neighbors
            /\ procs' = [procs EXCEPT ![p] =
                 StoreThrew(@, "invalid input syntax for type inet")]
  /\ UNCHANGED <<devStatus, links, interfaces, history, now, opCount, linkSeq>>

\* What follows the lookups: the link check when a device was found.
AfterResolve(pr, d, clock) ==
  IF d # NoDevice
    THEN [pr EXCEPT !.remoteDevice = d, !.pc = "checkLink"]
    ELSE NextLLDPNeighbor(pr, clock)

\* remoteDevice = await queryOne(SELECT id FROM network_devices WHERE name...)
CollectResolveName(p, d) ==
  /\ At(p, "collect", "resolveName")
  /\ d \in QueryOne(NameQueryRows(CurLLDP(p).remoteDeviceName))
  /\ procs' = [procs EXCEPT ![p] =
       IF d = NoDevice /\ CurLLDP(p).remoteIP # NoIP
         THEN [@ EXCEPT !.pc = "resolveIP"]
         ELSE AfterResolve(@, d, now)]
  /\ UNCHANGED <<devStatus, neighbors, links, interfaces, history, now, opCount, linkSeq>>

\* remoteDevice = await queryOne(SELECT id ... WHERE ip_address::text = $1)
CollectResolveIP(p, d) ==
  /\ At(p, "collect", "resolveIP")
  /\ d \in QueryOne(IPQueryRows(CurLLDP(p).remoteIP))
  /\ procs' = [procs EXCEPT ![p] = AfterResolve(@, d, now)]
  /\ UNCHANGED <<devStatus, neighbors, links, interfaces, history, now, opCount, linkSeq>>

\* existingLink = await queryOne(SELECT id FROM topology_links WHERE ...)
CollectCheckLink(p, id) ==
  /\ At(p, "collect", "checkLink")
  /\ id \in ExistingLinkIds(links, procs[p].deviceId, procs[p].remoteDevice)
  /\ procs' = [procs EXCEPT ![p].existingLink = id,
                            ![p].pc = IF id = NoLink THEN "insertLink"
                                      ELSE "updateLink"]
  /\ UNCHANGED <<devStatus, neighbors, links, interfaces, history, now, opCount, linkSeq>>

\* The link insert and the neighbor's remote_device_id written in one step.
CollectInsertLinkWithRemoteId(p) ==
  /\ At(p, "collect", "insertLink")
  /\ links' = Append(links,
       LinkRow(linkSeq + 1, procs[p].deviceId, CurLLDP(p).localInterface,
               procs[p].remoteDevice, OrNull(CurLLDP(p).remoteInterface), TRUE))
  /\ linkSeq' = linkSeq + 1
  /\ neighbors' = SetRemoteDeviceId(neighbors, procs[p].deviceId,
                     CurLLDP(p).localInterface, procs[p].remoteDevice)
  /\ procs' = [procs EXCEPT ![p].pc = "setRemoteId"]
  /\ UNCHANGED <<devStatus, interfaces, history, now, opCount>>

\* INSERT INTO topology_links (... 'discovered', 'up', auto_created ...)
CollectInsertLink(p) ==
  /\ At(p, "collect", "insertLink")
  /\ links' = Append(links,
       LinkRow(linkSeq + 1, procs[p].deviceId, CurLLDP(p).localInterface,
               procs[p].remoteDevice, OrNull(CurLLDP(p).remoteInterface), TRUE))
  /\ linkSeq' = linkSeq + 1
  /\ procs' = [procs EXCEPT ![p].pc = "setRemoteId"]
  /\ UNCHANGED <<devStatus, neighbors, interfaces, history, now, opCount>>

\* UPDATE topology_links SET source_interface = COALESCE($1, ...) ...
CollectUpdateLink(p) ==
  /\ At(p, "collect", "updateLink")
  /\ links' = RefreshLink(links, procs[p].existingLink,
                          CurLLDP(p).localInterface, CurLLDP(p).remoteInterface)
  /\ procs' = [procs EXCEPT ![p].pc = "setRemoteId"]
  /\ UNCHANGED <<devStatus, neighbors, interfaces, history, now, opCount, linkSeq>>

\* UPDATE topology_neighbors SET remote_device_id = $1 WHERE ...
CollectSetRemoteId(p) ==
  /\ At(p, "collect", "setRemoteId")
  /\ neighbors' = SetRemoteDeviceId(neighbors, procs[p].deviceId,
                     CurLLDP(p).localInterface, procs[p].remoteDevice)
  /\ procs' = [procs EXCEPT ![p] = NextLLDPNeighbor(@, now)]
  /\ UNCHANGED <<devStatus, links, interfaces, history, now, opCount, linkSeq>>

\* INSERT INTO topology_neighbors ... 'ospf' ... ON CONFLICT ... DO UPDATE
CollectUpsertOSPF(p) ==
  /\ At(p, "collect", "upsertOSPF")
  /\ IF InetSyntaxOK(procs[p].ospf.items[procs[p].idx].neighborIP)
       THEN /\ neighbors' = UpsertNeighbor(neighbors,
                 OSPFRow(procs[p].deviceId, procs[p].ospf.items[procs[p].idx],
                         procs[p].ts))
            /\ procs' = [procs EXCEPT ![p] =
                 IF @.idx < Len(@.ospf.items)
                   THEN [@ EXCEPT !.idx = @ + 1, !.ts = now]
                   ELSE [@ EXCEPT !.idx = 1, !.pc = AfterOSPFPc(procs[p])]]
       ELSE /\ neighbors' = neighbors
            /\ procs' = [procs EXCEPT ![p] =
                 StoreThrew(@, "invalid input syntax for type inet")]
  /\ UNCHANGED <<devStatus, links, interfaces, history, now, opCount, linkSeq>>

\* INSERT INTO device_interfaces ... ON CONFLICT (device_id, name) DO UPDATE
CollectUpsertInterface(p) ==
  /\ At(p, "collect", "upsertIface")
  /\ interfaces' = UpsertInterface(interfaces,
       [device_id |-> procs[p].deviceId,
        name |-> procs[p].ifaces.items[procs[p].idx].name,
        oper_status |-> procs[p].ifaces.items[procs[p].idx].operStatus])
  /\ procs' = [procs EXCEPT ![p] =
       IF @.idx < Len(@.ifaces.items)
         THEN [@ EXCEPT !.idx = @ + 1]
         ELSE [@ EXCEPT !.idx = 1, !.pc = "updateDevice"]]
  /\ UNCHANGED <<devStatus, neighbors, links, history, now, opCount, linkSeq>>

\* UPDATE network_devices SET [model = COALESCE($1, model),] status = 'online'
CollectUpdateDevice(p) ==
  /\ At(p, "collect", "updateDevice")
  /\ devStatus' = [devStatus EXCEPT
       ![procs[p].deviceId].status = "online",
       ![procs[p].deviceId].model =
          IF procs[p].sys.present THEN Coalesce(procs[p].sys.model, @) ELSE @]
  /\ procs' = [procs EXCEPT ![p].pc = "completeHistory"]
  /\ UNCHANGED <<neighbors, links, interfaces, history, now, opCount, linkSeq>>

\* UPDATE collection_history SET status = 'completed' ...; res.json(result)
CollectComplete(p) ==
  /\ At(p, "collect", "completeHistory")
  /\ history' = SetHistory(history, procs[p].historyId, "completed", "")
  /\ procs' = [procs EXCEPT ![p].pc = "done", ![p].http = 200]
  /\ UNCHANGED <<devStatus, neighbors, links, interfaces, now, opCount, linkSeq>>

\* catch (sshError): UPDATE collection_history SET status = 'failed' ...
CollectFailHistory(p) ==
  /\ At(p, "collect", "failHistory")
  /\ history' = SetHistory(history, procs[p].historyId, "failed", procs[p].error)
  /\ procs' = [procs EXCEPT ![p].pc = "errorDevice"]
  /\ UNCHANGED <<devStatus, neighbors, links, interfaces, now, opCount, linkSeq>>

\* The catch block without its device update.
CollectErrorDeviceNoUpdate(p) ==
  /\ At(p, "collect", "errorDevice")
  /\ procs' = [procs EXCEPT ![p].pc = "done", ![p].http = 500]
  /\ UNCHANGED <<devStatus, neighbors, links, interfaces, history, now, opCount, linkSeq>>

\* catch (sshError): UPDATE network_devices SET status = 'error'; res 500
CollectErrorDevice(p) ==
  /\ At(p, "collect", "errorDevice")
  /\ devStatus' = [devStatus EXCEPT ![procs[p].deviceId].status = "error"]
  /\ procs' = [procs EXCEPT ![p].pc = "done", ![p].http = 500]
  /\ UNCHANGED <<neighbors, links, interfaces, history, now, opCount, linkSeq>>

\* ------------------------------------------------ POST /api/collect (batch)
HasCredentials(d) ==
  Registry[d].ssh_username # "" /\ Registry[d].ssh_password_encrypted # ""

\* for (const device of targetDevices): devices without SSH credentials get
\* a failed outcome and are passed over; the flow stops at the next device
\* to collect, or at the response.
RECURSIVE BatchAdvance(_)
BatchAdvance(pr) ==
  IF pr.queue = <<>>
    THEN [pr EXCEPT !.pc = "done", !.http = 200, !.deviceId = NoDevice]
    ELSE IF ~HasCredentials(Head(pr.queue))
      THEN BatchAdvance(
             [pr EXCEPT !.queue = Tail(@),
                        !.results = Append(@, [deviceId |-> Head(pr.queue),
                                               success |-> FALSE,
                                               error |-> "no credentials"])])
      ELSE [pr EXCEPT !.queue = Tail(@), !.deviceId = Head(pr.queue),
                      !.pc = "bInsertHistory", !.lldp = Absent,
                      !.success = FALSE, !.error = "",
                      !.historyId = @ + 1]

\* The rows of SELECT * FROM network_devices [WHERE id = ANY($1)], by id.
RECURSIVE DeviceList(_)
DeviceList(ds) ==
  IF ds = {} THEN <<>>
  ELSE LET m == CHOOSE d \in ds : \A e \in ds : d <= e
       IN  <<m>> \o DeviceList(ds \ {m})

\* The request arrives; the target devices are read.
BatchStart(p, deviceIds, types) ==
  /\ Free(p)
  /\ opCount < MaxOps
  /\ opCount' = opCount + 1
  /\ procs' = [procs EXCEPT ![p] =
       BatchAdvance(
         [Fresh(p, "batch") EXCEPT !.types = types,
            !.historyId = (opCount + 1) * 10,
            !.queue = DeviceList(IF deviceIds = {} THEN DeviceIds
                                 ELSE deviceIds \cap DeviceIds)])]
  /\ UNCHANGED <<devStatus, neighbors, links, interfaces, history, now, linkSeq>>

\* INSERT INTO collection_history (... 'running' ...); new SSHService()
BatchInsertHistory(p) ==
  /\ At(p, "batch", "bInsertHistory")
  /\ history' = history \cup
       {[id |-> procs[p].historyId, device_id |-> procs[p].deviceId,
         collection_type |-> procs[p].types, status |-> "running",
         error_message |-> ""]}
  /\ procs' = [procs EXCEPT ![p].pc = "bConnect", ![p].ssh = SSHNew,
                            ![p].opened = FALSE]
  /\ UNCHANGED <<devStatus, neighbors, links, interfaces, now, opCount, linkSeq>>

\* After the LLDP command, or after connect when LLDP was not requested:
\* ssh.disconnect(), then the device update.
BatchDisconnect(s) == SSHDisconnect(s)

\* await ssh.connect(...): resolved, or rejected into the device's catch,
\* which holds no reference to the session.
BatchConnect(p, outcome) ==
  /\ At(p, "batch", "bConnect")
  /\ procs' = [procs EXCEPT ![p] =
       IF outcome = "ready"
         THEN IF Includes(@.types, "lldp")
                THEN [@ EXCEPT !.ssh = SSHConnect(@, outcome), !.opened = TRUE,
                               !.success = TRUE, !.pc = "bExecLLDP"]
                ELSE [@ EXCEPT !.ssh = BatchDisconnect(SSHConnect(@, outcome)),
                               !.opened = TRUE,
                               !.success = TRUE, !.pc = "bUpdateDevice"]
         ELSE [@ EXCEPT !.ssh = SSHConnect(@, outcome),
                        !.success = FALSE, !.error = ConnectError(outcome),
                        !.pc = "bFailHistory"]]
  /\ UNCHANGED <<devStatus, neighbors, links, interfaces, history, now, opCount, linkSeq>>

\* await ssh.executeCommand(getLLDPNeighbors); ssh.disconnect()
BatchExecLLDP(p, outcome, parsed) ==
  /\ At(p, "batch", "bExecLLDP")
  /\ procs' = [procs EXCEPT ![p] =
       [@ EXCEPT !.ssh = BatchDisconnect(SSHAfterExec(@, outcome)),
                 !.lldp = IF SSHExecSuccess(procs[p].ssh, outcome)
                            THEN Parsed(parsed) ELSE Absent,
                 !.pc = "bUpdateDevice"]]
  /\ UNCHANGED <<devStatus, neighbors, links, interfaces, history, now, opCount, linkSeq>>

\* UPDATE network_devices SET status = 'online', last_seen = $1
BatchUpdateDevice(p) ==
  /\ At(p, "batch", "bUpdateDevice")
  /\ devStatus' = [devStatus EXCEPT ![procs[p].deviceId].status = "online"]
  /\ procs' = [procs EXCEPT ![p].pc = "bComplete"]
  /\ UNCHANGED <<neighbors, links, interfaces, history, now, opCount, linkSeq>>

\* UPDATE collection_history SET status = 'completed'; results.push(result)
BatchComplete(p) ==
  /\ At(p, "batch", "bComplete")
  /\ history' = SetHistory(history, procs[p].historyId, "completed", "")
  /\ procs' = [procs EXCEPT ![p] =
       BatchAdvance([@ EXCEPT !.results =
         Append(@, [deviceId |-> procs[p].deviceId, success |-> TRUE,
                    error |-> ""])])]
  /\ UNCHANGED <<devStatus, neighbors, links, interfaces, now, opCount, linkSeq>>

\* catch (error): UPDATE collection_history SET status = 'failed' ...
BatchFailHistory(p) ==
  /\ At(p, "batch", "bFailHistory")
  /\ history' = SetHistory(history, procs[p].historyId, "failed", procs[p].error)
  /\ procs' = [procs EXCEPT ![p].pc = "bErrorDevice"]
  /\ UNCHANGED <<devStatus, neighbors, links, interfaces, now, opCount, linkSeq>>

\* The catch block leaving the loop after it recorded the failure.
BatchErrorDeviceAborts(p) ==
  /\ At(p, "batch", "bErrorDevice")
  /\ devStatus' = [devStatus EXCEPT ![procs[p].deviceId].status = "error"]
  /\ procs' = [procs EXCEPT ![p] =
       [@ EXCEPT !.results =
                   Append(@, [deviceId |-> procs[p].deviceId, success |-> FALSE,
                              error |-> procs[p].error]),
                 !.queue = <<>>, !.pc = "done", !.http = 500]]
  /\ UNCHANGED <<neighbors, links, interfaces, history, now, opCount, linkSeq>>

\* catch (error): UPDATE network_devices SET status = 'error'; results.push
BatchErrorDevice(p) ==
  /\ At(p, "batch", "bErrorDevice")
  /\ devStatus' = [devStatus EXCEPT ![procs[p].deviceId].status = "error"]
  /\ procs' = [procs EXCEPT ![p] =
       BatchAdvance([@ EXCEPT !.results =
         Append(@, [deviceId |-> procs[p].deviceId, success |-> FALSE,
                    error |-> procs[p].error])])]
  /\ UNCHANGED <<neighbors, links, interfaces, history, now, opCount, linkSeq>>

\* ------------------------------------------ POST /api/collect/test/:deviceId
\* The request arrives; the device is read and its credentials are tested.
TestStart(p, deviceId) ==
  /\ Free(p)
  /\ opCount < MaxOps
  /\ opCount' = opCount + 1
  /\ procs' = [procs EXCEPT ![p] =
       IF deviceId \notin DeviceIds
         THEN [Fresh(p, "test") EXCEPT !.pc = "done",
                 !.deviceId = deviceId, !.http = 404]
         ELSE IF ~HasCredentials(deviceId)
           THEN [Fresh(p, "test") EXCEPT !.pc = "done",
                   !.deviceId = deviceId, !.http = 200,
                   !.error = "no credentials"]
           ELSE [Fresh(p, "test") EXCEPT !.pc = "tConnect",
                   !.deviceId = deviceId]]
  /\ UNCHANGED <<devStatus, neighbors, links, interfaces, history, now, linkSeq>>

\* await ssh.connect(...): resolved, or rejected into catch (sshError), which
\* disconnects.
TestConnect(p, outcome) ==
  /\ At(p, "test", "tConnect")
  /\ procs' = [procs EXCEPT ![p] =
       IF outcome = "ready"
         THEN [@ EXCEPT !.ssh = SSHConnect(@, outcome), !.opened = TRUE,
                        !.pc = "tExec"]
         ELSE [@ EXCEPT !.ssh = SSHDisconnect(SSHConnect(@, outcome)),
                        !.error = ConnectError(outcome),
                        !.pc = "tErrorDevice"]]
  /\ UNCHANGED <<devStatus, neighbors, links, interfaces, history, now, opCount, linkSeq>>

\* await ssh.executeCommand(testConnection); ssh.disconnect()
TestExec(p, outcome) ==
  /\ At(p, "test", "tExec")
  /\ procs' = [procs EXCEPT ![p] =
       [@ EXCEPT !.ssh = SSHDisconnect(SSHAfterExec(@, outcome)),
                 !.executed = Append(@, "test"),
                 !.pc = "tOnlineDevice"]]
  /\ UNCHANGED <<devStatus, neighbors, links, interfaces, history, now, opCount, linkSeq>>

\* UPDATE network_devices SET status = 'online' ...; res.json(success: true)
TestOnlineDevice(p) ==
  /\ At(p, "test", "tOnlineDevice")
  /\ devStatus' = [devStatus EXCEPT ![procs[p].deviceId].status = "online"]
  /\ procs' = [procs EXCEPT ![p].pc = "done", ![p].http = 200,
                            ![p].success = TRUE]
  /\ UNCHANGED <<neighbors, links, interfaces, history, now, opCount, linkSeq>>

\* catch: UPDATE network_devices SET status = 'error'; res.json(success: false)
TestErrorDevice(p) ==
  /\ At(p, "test", "tErrorDevice")
  /\ devStatus' = [devStatus EXCEPT ![procs[p].deviceId].status = "error"]
  /\ procs' = [procs EXCEPT ![p].pc = "done", ![p].http = 200]
  /\ UNCHANGED <<neighbors, links, interfaces, history, now, opCount, linkSeq>>

\* ------------------------------------------ POST /api/topology/auto-links
\* LEAST(local, remote), GREATEST(local, remote) of a neighbor row.
PairKey(r) ==
  IF r.local_device_id <= r.remote_device_id
    THEN <<r.local_device_id, r.remote_device_id>>
    ELSE <<r.remote_device_id, r.local_device_id>>

\* WHERE remote_device_id IS NOT NULL
ResolvedNeighbors(tbl) == {r \in tbl : r.remote_device_id # NoDevice}

PairBefore(a, b) == a[1] < b[1] \/ (a[1] = b[1] /\ a[2] <= b[2])

\* SELECT DISTINCT ON (LEAST(..), GREATEST(..)) local_device_id,
\* local_interface, remote_device_id, remote_interface: one row per pair,
\* the pairs in order; which row of a pair is kept is not determined.
RECURSIVE DistinctOnPair(_, _)
DistinctOnPair(tbl, keys) ==
  IF keys = {} THEN {<<>>}
  ELSE LET k == CHOOSE k \in keys : \A j \in keys : PairBefore(k, j)
       IN  { <<[local_device_id |-> r.local_device_id,
                local_interface |-> r.local_interface,
                remote_device_id |-> r.remote_device_id,
                remote_interface |-> r.remote_interface]>> \o rest :
               r \in {x \in tbl : PairKey(x) = k},
               rest \in DistinctOnPair(tbl, keys \ {k}) }

SweepQuery(tbl) ==
  DistinctOnPair(ResolvedNeighbors(tbl),
                 {PairKey(r) : r \in ResolvedNeighbors(tbl)})

\* for (const neighbor of neighbors): on to the next row, or the response.
SweepAdvance(pr) ==
  IF pr.idx < Len(pr.queue)
    THEN [pr EXCEPT !.idx = @ + 1, !.pc = "sCheck"]
    ELSE [pr EXCEPT !.pc = "done", !.http = 200]

\* The request arrives; the neighbor rows are read.
SweepStart(p, rows) ==
  /\ Free(p)
  /\ opCount < MaxOps
  /\ rows \in SweepQuery(neighbors)
  /\ opCount' = opCount + 1
  /\ procs' = [procs EXCEPT ![p] =
       IF rows = <<>>
         THEN [Fresh(p, "sweep") EXCEPT !.pc = "done", !.http = 200]
         ELSE [Fresh(p, "sweep") EXCEPT !.pc = "sCheck",
                               !.queue = rows]]
  /\ UNCHANGED <<devStatus, neighbors, links, interfaces, history, now, linkSeq>>

\* The sweep's lookup with $1 written for both parameters.
SweepRowExistsSameParam(ls, a, b) == ExistingLinkRows(ls, a, a) # {}

\* existing = await query(SELECT id FROM topology_links WHERE ...);
\* existing.length === 0 ? insert : skipped++
SweepRowExists(ls, a, b) == ExistingLinkRows(ls, a, b) # {}

SweepCheck(p) ==
  /\ At(p, "sweep", "sCheck")
  /\ procs' = [procs EXCEPT ![p] =
       IF SweepRowExists(links, @.queue[@.idx].local_device_id,
                         @.queue[@.idx].remote_device_id)
         THEN SweepAdvance([@ EXCEPT !.skipped = @ + 1])
         ELSE [@ EXCEPT !.pc = "sInsert"]]
  /\ UNCHANGED <<devStatus, neighbors, links, interfaces, history, now, opCount, linkSeq>>

\* INSERT INTO topology_links (... 'discovered', 'up', auto_created ...)
SweepInsert(p) ==
  /\ At(p, "sweep", "sInsert")
  /\ links' = Append(links,
       LinkRow(linkSeq + 1,
               procs[p].queue[procs[p].idx].local_device_id,
               procs[p].queue[procs[p].idx].local_interface,
               procs[p].queue[procs[p].idx].remote_device_id,
               procs[p].queue[procs[p].idx].remote_interface, TRUE))
  /\ linkSeq' = linkSeq + 1
  /\ procs' = [procs EXCEPT ![p] = SweepAdvance([@ EXCEPT !.created = @ + 1])]
  /\ UNCHANGED <<devStatus, neighbors, interfaces, history, now, opCount>>

\* --------------------------------------- POST / DELETE /api/topology/links
\* Create manual link: one INSERT, no look at the rows already there.
CreateLink(p, src, srcIf, tgt, tgtIf) ==
  /\ Free(p)
  /\ opCount < MaxOps
  /\ src \in DeviceIds /\ tgt \in DeviceIds
  /\ opCount' = opCount + 1
  /\ links' = Append(links, LinkRow(linkSeq + 1, src, srcIf, tgt, tgtIf, FALSE))
  /\ linkSeq' = linkSeq + 1
  /\ procs' = [procs EXCEPT ![p] =
       [Fresh(p, "createLink") EXCEPT !.pc = "done", !.http = 201]]
  /\ UNCHANGED <<devStatus, neighbors, interfaces, history, now>>

\* Delete link: DELETE FROM topology_links WHERE id = $1
DeleteLink(p, id) ==
  /\ Free(p)
  /\ opCount < MaxOps
  /\ \E i \in 1..Len(links) : links[i].id = id
  /\ opCount' = opCount + 1
  /\ links' = DeleteLinkRow(links, id)
  /\ procs' = [procs EXCEPT ![p] =
       [Fresh(p, "deleteLink") EXCEPT !.pc = "done", !.http = 200]]
  /\ UNCHANGED <<devStatus, neighbors, interfaces, history, now, linkSeq>>

\* ------------------------------- ssh-collector (edge function), serve()
\* parseHuaweiLLDP(simulatedLLDP): the four data lines of the simulated
\* output, three columns each, no address.
EdgeLLDP ==
  << [localInterface |-> "GE0/0/1",
      remoteDeviceName |-> <<"S","W","-","D","I","S","T","-","0","1">>,
      remoteInterface |-> "GE0/0/24", remoteIP |-> NoIP,
      rawData |-> "GE0/0/1       SW-DIST-01             GE0/0/24"],
     [localInterface |-> "GE0/0/2",
      remoteDeviceName |-> <<"S","W","-","D","I","S","T","-","0","2">>,
      remoteInterface |-> "GE0/0/24", remoteIP |-> NoIP,
      rawData |-> "GE0/0/2       SW-DIST-02             GE0/0/24"],
     [localInterface |-> "GE0/0/3",
      remoteDeviceName |-> <<"S","W","-","A","C","C","E","S","S","-","0","1">>,
      remoteInterface |-> "GE0/0/1", remoteIP |-> NoIP,
      rawData |-> "GE0/0/3       SW-ACCESS-01           GE0/0/1"],
     [localInterface |-> "GE0/0/4",
      remoteDeviceName |-> <<"R","O","U","T","E","R","-","E","D","G","E","-","0","1">>,
      remoteInterface |-> "GE0/0/0", remoteIP |-> NoIP,
      rawData |-> "GE0/0/4       ROUTER-EDGE-01         GE0/0/0"] >>

\* parseHuaweiInterfaces(simulatedInterfaces): name and Protocol column.
EdgeInterfaces ==
  << [name |-> "GE0/0/1", operStatus |-> "up"],
     [name |-> "GE0/0/2", operStatus |-> "up"],
     [name |-> "GE0/0/3", operStatus |-> "up"],
     [name |-> "GE0/0/4", operStatus |-> "up"],
     [name |-> "GE0/0/5", operStatus |-> "down"] >>

\* parseHuaweiSystemInfo(simulatedSystemInfo): the output has no sysname
\* line, so hostname keeps its initial 'Unknown'.
UnknownHostname == <<"U","n","k","n","o","w","n">>
EdgeSystemInfo ==
  [hostname |-> UnknownHostname, model |-> "S5735-L24T4X-A1",
   osVersion |-> "VRP 8.180"]

\* The hostname column written whatever the parser found.
EdgeHostnameAsParsed(info, device) == info.hostname

\* hostname: systemInfo.hostname !== 'Unknown' ? systemInfo.hostname
\*                                             : device.hostname
EdgeHostname(info, device) ==
  IF info.hostname # UnknownHostname THEN info.hostname ELSE device.hostname

\* model: systemInfo.model || device.model
EdgeModel(info, device) ==
  IF info.model # "" /\ info.model # NullText THEN info.model ELSE device.model

\* What follows the history update: the neighbor loop, the interface loop,
\* the device update, or the response.
EdgeAfterInterfaces(pr) ==
  IF pr.sys.present THEN [pr EXCEPT !.pc = "eUpdateDevice"]
  ELSE [pr EXCEPT !.pc = "done", !.http = 200]

EdgeAfterLLDP(pr) ==
  IF NonEmpty(pr.ifaces) THEN [pr EXCEPT !.idx = 1, !.pc = "eUpsertIface"]
  ELSE EdgeAfterInterfaces(pr)

EdgeAfterHistory(pr) ==
  IF NonEmpty(pr.lldp) THEN [pr EXCEPT !.idx = 1, !.pc = "eUpsertLLDP"]
  ELSE EdgeAfterLLDP(pr)

\* req.json(); SELECT * FROM network_devices WHERE id = deviceId (.single())
EdgeStart(p, deviceId, types) ==
  /\ Free(p)
  /\ opCount < MaxOps
  /\ opCount' = opCount + 1
  /\ procs' = [procs EXCEPT ![p] =
       IF deviceId \in DeviceIds
         THEN [Fresh(p, "edge") EXCEPT !.pc = "eInsertHistory",
                 !.deviceId = deviceId, !.types = types,
                 !.historyId = opCount + 1,
                 !.device = [hostname |-> devStatus[deviceId].hostname,
                             model |-> devStatus[deviceId].model,
                             vendor |-> devStatus[deviceId].vendor]]
         ELSE [Fresh(p, "edge") EXCEPT !.pc = "done",
                 !.deviceId = deviceId, !.types = types, !.http = 404]]
  /\ UNCHANGED <<devStatus, neighbors, links, interfaces, history, now, linkSeq>>

\* INSERT collection_history (running); simulateSSHCollection(); the parsers
\* run for vendor 'huawei' only; result.success = true.
EdgeInsertHistory(p) ==
  /\ At(p, "edge", "eInsertHistory")
  /\ history' = history \cup
       {[id |-> procs[p].historyId, device_id |-> procs[p].deviceId,
         collection_type |-> procs[p].types, status |-> "running",
         error_message |-> ""]}
  /\ procs' = [procs EXCEPT ![p] =
       LET huawei == @.device.vendor = "huawei"
       IN  [@ EXCEPT !.pc = "eCompleteHistory", !.success = TRUE,
              !.lldp = IF huawei /\ Includes(procs[p].types, "lldp")
                         THEN Parsed(EdgeLLDP) ELSE Absent,
              !.ifaces = IF huawei /\ Includes(procs[p].types, "interfaces")
                           THEN Parsed(EdgeInterfaces) ELSE Absent,
              !.sys = IF huawei /\ Includes(procs[p].types, "system")
                        THEN [present |-> TRUE, model |-> EdgeSystemInfo.model]
                        ELSE NoSys]]
  /\ UNCHANGED <<devStatus, neighbors, links, interfaces, now, opCount, linkSeq>>

\* UPDATE collection_history SET status = 'completed', parsed_data, ...
EdgeCompleteHistory(p) ==
  /\ At(p, "edge", "eCompleteHistory")
  /\ history' = SetHistory(history, procs[p].historyId, "completed", "")
  /\ procs' = [procs EXCEPT ![p] = EdgeAfterHistory(@)]
  /\ UNCHANGED <<devStatus, neighbors, links, interfaces, now, opCount, linkSeq>>

\* topology_neighbors upsert, onConflict (local device, interface, protocol)
EdgeUpsertLLDP(p) ==
  /\ At(p, "edge", "eUpsertLLDP")
  /\ neighbors' = UpsertNeighbor(neighbors,
       LLDPRow(procs[p].deviceId, procs[p].lldp.items[procs[p].idx], now))
  /\ procs' = [procs EXCEPT ![p] =
       IF @.idx < Len(@.lldp.items)
         THEN [@ EXCEPT !.idx = @ + 1]
         ELSE EdgeAfterLLDP(@)]
  /\ UNCHANGED <<devStatus, links, interfaces, history, now, opCount, linkSeq>>

\* device_interfaces upsert, onConflict (device_id, name)
EdgeUpsertInterface(p) ==
  /\ At(p, "edge", "eUpsertIface")
  /\ interfaces' = UpsertInterface(interfaces,
       [device_id |-> procs[p].deviceId,
        name |-> procs[p].ifaces.items[procs[p].idx].name,
        oper_status |-> procs[p].ifaces.items[procs[p].idx].operStatus])
  /\ procs' = [procs EXCEPT ![p] =
       IF @.idx < Len(@.ifaces.items)
         THEN [@ EXCEPT !.idx = @ + 1]
         ELSE EdgeAfterInterfaces(@)]
  /\ UNCHANGED <<devStatus, neighbors, links, history, now, opCount, linkSeq>>

\* if (result.systemInfo) update network_devices: hostname, model,
\* os_version, status 'online', last_seen; then the response.
EdgeUpdateDevice(p) ==
  /\ At(p, "edge", "eUpdateDevice")
  /\ devStatus' = [devStatus EXCEPT
       ![procs[p].deviceId].hostname = EdgeHostname(EdgeSystemInfo, procs[p].device),
       ![procs[p].deviceId].model = EdgeModel(EdgeSystemInfo, procs[p].device),
       ![procs[p].deviceId].status = "online"]
  /\ procs' = [procs EXCEPT ![p].pc = "done", ![p].http = 200]
  /\ UNCHANGED <<neighbors, links, interfaces, history, now, opCount, linkSeq>>

\* ----------------------------------------------------- parsers (Huawei)
\* Text is a sequence of characters, an output the sequence of its lines
\* (rawOutput.split('\n')).
\* The interface test without the i flag.
InterfaceNameLikeCaseSensitive(part) ==
  \E pre \in { <<"G", "E">>, <<"X", "G", "E">>, <<"E", "T", "H">>, <<"1", "0", "G", "E">>, <<"4", "0", "G", "E">>, <<"1", "0", "0", "G", "E">>, <<"E", "t", "h", "-", "T", "r", "u", "n", "k">>, <<"M", "E", "t", "h">> } :
     StartsWith(part, pre)

\* /^(GE|XGE|ETH|10GE|40GE|100GE|Eth-Trunk|MEth)/i.test(parts[0])
InterfaceNameLike(part) ==
  \E pre \in { <<"G", "E">>, <<"X", "G", "E">>, <<"E", "T", "H">>, <<"1", "0", "G", "E">>, <<"4", "0", "G", "E">>, <<"1", "0", "0", "G", "E">>, <<"E", "t", "h", "-", "T", "r", "u", "n", "k">>, <<"M", "E", "t", "h">> } :
     StartsWith(LowerStr(part), LowerStr(pre))

\* The records one line of the output gives (server parser).
ParseLLDPNeighborsLine(line) ==
  LET trimmedLine == Trim(line)
      parts == SelectSeq(SplitOnSpaces(trimmedLine, 1), LAMBDA x : Len(x) > 0)
  IN  IF trimmedLine = <<>> \/ StartsWith(trimmedLine, <<"L", "o", "c", "a", "l">>)
           \/ StartsWith(trimmedLine, <<"-">>)
        THEN <<>>
        ELSE IF Len(parts) >= 3 /\ InterfaceNameLike(parts[1])
          THEN << [localInterface |-> parts[1], remoteDeviceName |-> parts[2],
                   remoteInterface |-> parts[3],
                   remoteIP |-> FirstDottedQuad(trimmedLine),
                   rawData |-> trimmedLine] >>
          ELSE <<>>

\* parsers/huawei.ts parseLLDPNeighbors(rawOutput)
RECURSIVE ParseLLDPNeighbors(_)
ParseLLDPNeighbors(rawOutput) ==
  IF rawOutput = <<>> THEN <<>>
  ELSE ParseLLDPNeighborsLine(Head(rawOutput)) \o ParseLLDPNeighbors(Tail(rawOutput))

\* The loop of parseHuaweiLLDP from a line on, dataStarted as it stands.
RECURSIVE ParseHuaweiLLDPFrom(_, _)
ParseHuaweiLLDPFrom(lines, dataStarted) ==
  IF lines = <<>> THEN <<>>
  ELSE
    LET trimmedLine == Trim(Head(lines))
        parts == SplitOnSpaces(trimmedLine, 2)
    IN  IF trimmedLine = <<>> \/ StartsWith(trimmedLine, <<"L", "o", "c", "a", "l", " ", "I", "n", "t", "f">>)
             \/ StartsWith(trimmedLine, <<"-">>)
          THEN ParseHuaweiLLDPFrom(Tail(lines),
                 dataStarted \/ StartsWith(trimmedLine, <<"L", "o", "c", "a", "l", " ", "I", "n", "t", "f">>))
          ELSE IF ~dataStarted
            THEN ParseHuaweiLLDPFrom(Tail(lines), FALSE)
            ELSE (IF Len(parts) >= 3
                    THEN << [localInterface |-> Trim(parts[1]),
                             remoteDeviceName |-> Trim(parts[2]),
                             remoteInterface |-> Trim(parts[3]),
                             rawData |-> trimmedLine] >>
                    ELSE <<>>)
                 \o ParseHuaweiLLDPFrom(Tail(lines), TRUE)

\* ssh-collector parseHuaweiLLDP(output)
ParseHuaweiLLDP(output) == ParseHuaweiLLDPFrom(output, FALSE)

\* A slot that holds an argument and has not called yet.
Holding(p) == procs[p].kind = "idle" /\ procs[p].call.fn = ""

\* neighbors = parseLLDPNeighbors(rawOutput)
CallParseLLDPNeighbors(p) ==
  /\ Holding(p)
  /\ procs' = [procs EXCEPT ![p].call =
       [fn |-> "parseLLDPNeighbors", arg |-> @.arg,
        ret |-> ParseLLDPNeighbors(@.arg.rawOutput)]]
  /\ UNCHANGED <<devStatus, neighbors, links, interfaces, history, now, opCount, linkSeq>>

\* neighbors = parseHuaweiLLDP(output)
CallParseHuaweiLLDP(p) ==
  /\ Holding(p)
  /\ procs' = [procs EXCEPT ![p].call =
       [fn |-> "parseHuaweiLLDP", arg |-> @.arg,
        ret |-> ParseHuaweiLLDP(@.arg.rawOutput)]]
  /\ UNCHANGED <<devStatus, neighbors, links, interfaces, history, now, opCount, linkSeq>>

\* --------------------------------------------- parsers/index.ts (lookup)
\* VendorCommands of the five parser modules.
VendorCommands(vendor) ==
  CASE vendor = "huawei" ->
         [getLLDPNeighbors |-> "display lldp neighbor brief",
          getOSPFNeighbors |-> "display ospf peer brief",
          getInterfaces |-> "display interface brief",
          getSystemInfo |-> "display version", testConnection |-> "display clock"]
    [] vendor = "cisco" ->
         [getLLDPNeighbors |-> "show lldp neighbors",
          getOSPFNeighbors |-> "show ip ospf neighbor",
          getInterfaces |-> "show ip interface brief",
          getSystemInfo |-> "show version", testConnection |-> "show clock"]
    [] vendor = "juniper" ->
         [getLLDPNeighbors |-> "show lldp neighbors",
          getOSPFNeighbors |-> "show ospf neighbor",
          getInterfaces |-> "show interfaces terse",
          getSystemInfo |-> "show version", testConnection |-> "show system uptime"]
    [] vendor = "mikrotik" ->
         [getLLDPNeighbors |-> "/ip neighbor print",
          getOSPFNeighbors |-> "/routing ospf neighbor print",
          getInterfaces |-> "/interface print",
          getSystemInfo |-> "/system resource print",
          testConnection |-> "/system clock print"]
    [] vendor = "datacom" ->
         [getLLDPNeighbors |-> "show lldp neighbors",
          getOSPFNeighbors |-> "show ip ospf neighbor",
          getInterfaces |-> "show interface status",
          getSystemInfo |-> "show version", testConnection |-> "show clock"]

\* The parser object a module exports: its commands and its four functions
\* (a function is named by the module that defines it).
ParserModule(vendor) ==
  [commands |-> VendorCommands(vendor),
   parseLLDPNeighbors |-> <<vendor, "parseLLDPNeighbors">>,
   parseOSPFNeighbors |-> <<vendor, "parseOSPFNeighbors">>,
   parseInterfaces |-> <<vendor, "parseInterfaces">>,
   parseSystemInfo |-> <<vendor, "parseSystemInfo">>]

\* const vendorParsers: Record<VendorType, VendorParser>
vendorParsers ==
  [v \in {"huawei", "cisco", "juniper", "mikrotik", "datacom", "other"} |->
     IF v = "other" THEN ParserModule("huawei") ELSE ParserModule(v)]

\* vendorParsers[vendor]: undefined for a key the table does not hold.
Undefined == [undefined |-> TRUE]
LookupParser(vendor) ==
  IF vendor \in DOMAIN vendorParsers THEN vendorParsers[vendor] ELSE Undefined

\* The lookup without the default.
getVendorParserNoDefault(vendor) == LookupParser(vendor)

\* getVendorParser(vendor): vendorParsers[vendor] || vendorParsers.huawei
getVendorParser(vendor) ==
  IF LookupParser(vendor) # Undefined THEN LookupParser(vendor)
  ELSE vendorParsers["huawei"]

\* getVendorCommands(vendor)
getVendorCommands(vendor) == getVendorParser(vendor).commands

\* The values the vendor column holds: the tags of vendor_type, or NULL.
VendorType == {"huawei", "juniper", "mikrotik", "datacom", "cisco", "other"}
VendorValues == VendorType \cup {NullText}

\* parser = getVendorParser(device.vendor)
CallGetVendorParser(p) ==
  /\ Holding(p)
  /\ procs' = [procs EXCEPT ![p].call =
       [fn |-> "getVendorParser", arg |-> @.arg,
        ret |-> getVendorParser(@.arg.vendor)]]
  /\ UNCHANGED <<devStatus, neighbors, links, interfaces, history, now, opCount, linkSeq>>

\* commands = getVendorCommands(device.vendor)
CallGetVendorCommands(p) ==
  /\ Holding(p)
  /\ procs' = [procs EXCEPT ![p].call =
       [fn |-> "getVendorCommands", arg |-> @.arg,
        ret |-> getVendorCommands(@.arg.vendor)]]
  /\ UNCHANGED <<devStatus, neighbors, links, interfaces, history, now, opCount, linkSeq>>

\* ------------------------------------ topology/normalizer calculateLayout
\* Numbers are kept in tenths (Scale units to 1); quotients and roots are
\* rounded toward zero.
Scale == 10
iterations == 50
repulsion == 5000
padding == 100
width == 800
height == 600

Quot(a, b) == IF a >= 0 THEN a \div b ELSE -((-a) \div b)

RECURSIVE SqrtBetween(_, _, _)
SqrtBetween(n, lo, hi) ==
  IF lo >= hi THEN lo
  ELSE LET mid == (lo + hi + 1) \div 2
       IN  IF mid * mid <= n THEN SqrtBetween(n, mid, hi)
           ELSE SqrtBetween(n, lo, mid - 1)

\* Math.sqrt
Sqrt(n) == SqrtBetween(n, 0, IF n < 46340 THEN n ELSE 46340)

Abs(n) == IF n < 0 THEN -n ELSE n

\* Math.sqrt(dx * dx + dy * dy); differences whose squares leave the
\* integer range are halved first.
RECURSIVE Hypot(_, _)
Hypot(dx, dy) ==
  IF Abs(dx) <= 32767 /\ Abs(dy) <= 32767 THEN Sqrt(dx * dx + dy * dy)
  ELSE 2 * Hypot(Quot(dx, 2), Quot(dy, 2))

\* Math.sqrt(dx * dx + dy * dy) || 1
Dist(dx, dy) == IF Hypot(dx, dy) = 0 THEN 1 * Scale ELSE Hypot(dx, dy)

\* The repulsion node a receives from node b, along one axis (d the
\* difference b - a on that axis): -(d / dist) * (repulsion / dist^2).
RepulsionOn(a, b, axis) ==
  LET dx == b.x - a.x
      dy == b.y - a.y
      dist == Dist(dx, dy)
      force == Quot(Quot(repulsion * Scale * Scale * Scale, dist), dist)
      d == IF axis = "x" THEN dx ELSE dy
  IN  -Quot(d * force, dist)

\* The attraction the source of an edge receives toward its target
\* (attraction = 0.01): (d / dist) * (dist * attraction), which is
\* d * attraction since dist is not 0.
AttractionOn(a, b, axis) ==
  Quot(IF axis = "x" THEN b.x - a.x ELSE b.y - a.y, 100)

RECURSIVE SumOver(_, _)
SumOver(f, n) == IF n = 0 THEN 0 ELSE f[n] + SumOver(f, n - 1)

\* layoutNodes.find(n => n.id === id): the index of the first match, 0
\* for undefined.
FindNode(nodes, id) ==
  IF \E i \in 1..Len(nodes) : nodes[i].id = id
    THEN SetMin({i \in 1..Len(nodes) : nodes[i].id = id})
    ELSE 0

\* What the edges add to the velocity of node i along an axis.
EdgePull(nodes, edges, i, axis) ==
  SumOver([e \in 1..Len(edges) |->
    LET a == FindNode(nodes, edges[e].source)
        b == FindNode(nodes, edges[e].target)
    IN  IF a = 0 \/ b = 0 THEN 0
        ELSE (IF a = i THEN AttractionOn(nodes[a], nodes[b], axis) ELSE 0)
           + (IF b = i THEN -AttractionOn(nodes[a], nodes[b], axis) ELSE 0)],
    Len(edges))

\* What the other nodes add to the velocity of node i along an axis.
NodePush(nodes, i, axis) ==
  SumOver([j \in 1..Len(nodes) |->
    IF j = i THEN 0
    ELSE IF i < j THEN RepulsionOn(nodes[i], nodes[j], axis)
    ELSE -RepulsionOn(nodes[j], nodes[i], axis)], Len(nodes))

\* One iteration: forces into velocities, velocities into positions,
\* velocities damped (damping = 0.9).
LayoutIteration(nodes, edges) ==
  [i \in 1..Len(nodes) |->
     LET vx == nodes[i].vx + NodePush(nodes, i, "x") + EdgePull(nodes, edges, i, "x")
         vy == nodes[i].vy + NodePush(nodes, i, "y") + EdgePull(nodes, edges, i, "y")
     IN  [id |-> nodes[i].id, x |-> nodes[i].x + vx, y |-> nodes[i].y + vy,
          vx |-> Quot(vx * 9, 10), vy |-> Quot(vy * 9, 10)]]

RECURSIVE LayoutIterations(_, _, _)
LayoutIterations(nodes, edges, n) ==
  IF n = 0 THEN nodes
  ELSE LET moved == LayoutIteration(nodes, edges)
       IN  IF moved = moved THEN LayoutIterations(moved, edges, n - 1) ELSE moved

\* The divisor of the normalisation taken as it is.
SpanAsIs(min, max) == max - min

\* (max - min) || 1
Span(min, max) == IF max - min = 0 THEN 1 * Scale ELSE max - min

\* The quotient q and the remainder r of a * b by c, for 0 <= a <= c,
\* b >= 0, c > 0; no intermediate value exceeds 3 * c.
RECURSIVE MulDivMod(_, _, _)
MulDivMod(a, b, c) ==
  IF b = 0 THEN [q |-> 0, r |-> 0]
  ELSE LET half == MulDivMod(a, b \div 2, c)
           t == 2 * half.r + (b % 2) * (a % c)
       IN  [q |-> 2 * half.q + (b % 2) * (a \div c) + t \div c, r |-> t % c]

\* padding + (v - min) / ((max - min) || 1) * (extent - padding * 2): the
\* coordinate in tenths, what is left below a tenth (rest, in parts of
\* the divisor), and NaN for 0 / 0.
Normalise(v, min, max, extent) ==
  IF Span(min, max) = 0
    THEN [tenths |-> 0, rest |-> 0, nan |-> TRUE]
    ELSE LET part == MulDivMod(v - min, (extent - padding * 2) * Scale, Span(min, max))
         IN  [tenths |-> padding * Scale + part.q, rest |-> part.r, nan |-> FALSE]

\* layoutNodes = nodes.map(n => ({ ...n, vx: 0, vy: 0 })); positions come
\* in whole units.
LayoutClone(nodes) ==
  [i \in 1..Len(nodes) |->
     [id |-> nodes[i].id, x |-> nodes[i].x * Scale,
      y |-> nodes[i].y * Scale, vx |-> 0, vy |-> 0]]

\* calculateLayout(nodes, edges)
calculateLayout(nodes, edges) ==
  LET layoutNodes == LayoutIterations(LayoutClone(nodes), edges, iterations)
      xs == {layoutNodes[i].x : i \in 1..Len(layoutNodes)}
      ys == {layoutNodes[i].y : i \in 1..Len(layoutNodes)}
  IN  [i \in 1..Len(layoutNodes) |->
         [id |-> layoutNodes[i].id,
          x |-> Normalise(layoutNodes[i].x, SetMin(xs), SetMax(xs), width),
          y |-> Normalise(layoutNodes[i].y, SetMin(ys), SetMax(ys), height)]]

\* nodes = calculateLayout(nodes, edges)
CallCalculateLayout(p) ==
  /\ Holding(p)
  /\ procs' = [procs EXCEPT ![p].call =
       [fn |-> "calculateLayout", arg |-> @.arg,
        ret |-> calculateLayout(@.arg.nodes, @.arg.edges)]]
  /\ UNCHANGED <<devStatus, neighbors, links, interfaces, history, now, opCount, linkSeq>>

\* ------------------------------------------------- config/schema.ts
\* A database as validateSchema sees it: the tables of schema public, the
\* columns of topology_neighbors and the column sets of its constraints of
\* type 'u'.
REQUIRED_TABLES ==
  {"network_devices", "device_interfaces", "topology_neighbors",
   "topology_links", "collection_history", "topology_snapshots",
   "system_settings"}

REQUIRED_NEIGHBOR_COLUMNS ==
  {"local_device_id", "local_interface", "remote_device_id",
   "remote_device_name", "remote_interface", "remote_ip",
   "discovery_protocol", "raw_data", "discovered_at", "last_updated"}

\* ARRAY['local_device_id','local_interface','discovery_protocol'], which is
\* also the conflict target of the neighbor upserts.
NeighborConflictTarget ==
  {"local_device_id", "local_interface", "discovery_protocol"}

\* The uniqueOk query: some constraint of type 'u' whose columns contain
\* (@>) the three columns.
uniqueOk(db) == \E u \in db.uniques : NeighborConflictTarget \subseteq u

\* validateSchema(): resolves, or throws at the first check that fails.
validateSchema(db) ==
  IF REQUIRED_TABLES \ db.tables # {}
    THEN [ok |-> FALSE, error |-> "Tabelas ausentes"]
  ELSE IF REQUIRED_NEIGHBOR_COLUMNS \ db.columns # {}
    THEN [ok |-> FALSE, error |-> "topology_neighbors sem colunas"]
  ELSE IF ~uniqueOk(db)
    THEN [ok |-> FALSE, error |-> "topology_neighbors precisa de UNIQUE"]
  ELSE [ok |-> TRUE, error |-> ""]

\* ON CONFLICT (local_device_id, local_interface, discovery_protocol): the
\* store takes as arbiter a unique index on exactly these columns; without
\* one the statement is rejected.
ConflictTargetEnforced(db) == NeighborConflictTarget \in db.uniques

\* await validateSchema()
CallValidateSchema(p) ==
  /\ Holding(p)
  /\ procs' = [procs EXCEPT ![p].call =
       [fn |-> "validateSchema", arg |-> @.arg, ret |-> validateSchema(@.arg)]]
  /\ UNCHANGED <<devStatus, neighbors, links, interfaces, history, now, opCount, linkSeq>>

\* ------------------------------------------------------------- the device
\* The suspension points of a collection that wait for the device.
WaitPcs == {"connect", "execLLDP", "execOSPF", "execInterfaces", "execSystem"}

\* The device behaves in some way during the operation the request in slot
\* p waits for.
DeviceBehaves(p, w) ==
  /\ procs[p].kind = "collect"
  /\ procs[p].pc \in WaitPcs
  /\ procs[p].wire.at # procs[p].pc
  /\ w \in IF procs[p].pc = "connect" THEN ConnectWire ELSE ExecWire
  /\ procs' = [procs EXCEPT ![p].wire = [at |-> procs[p].pc, w |-> w]]
  /\ UNCHANGED <<devStatus, neighbors, links, interfaces, history, now,
                 opCount, linkSeq>>

\* The behaviour of the device at the point the request waits at, and
\* whether it settles the awaited promise.
Behaved(p) == procs[p].wire.at = procs[p].pc
Settles(o) == o # "none"

\* ------------------------------------------------------------- the clock
\* A millisecond passes.
\* A network_devices row as device management created it: the registry
\* columns, status 'unknown' (the column default) and no model yet.
DeviceRow(d) ==
  [name |-> Registry[d].name, hostname |-> Registry[d].hostname,
   ip_address |-> Registry[d].ip_address, vendor |-> Registry[d].vendor,
   ssh_username |-> Registry[d].ssh_username,
   ssh_password_encrypted |-> Registry[d].ssh_password_encrypted,
   status |-> "unknown", model |-> NullText]

Tick ==
  /\ now < MaxClock
  /\ now' = now + 1
  /\ UNCHANGED <<devStatus, neighbors, links, interfaces, history, opCount,
                 linkSeq, procs>>

\* ------------------------------------------------------------------ Init
\* The store after the schema script: the registry's devices, no other row.
Init ==
  /\ devStatus = [d \in DeviceIds |-> DeviceRow(d)]
  /\ neighbors = {}
  /\ links = <<>>
  /\ interfaces = {}
  /\ history = {}
  /\ now = 0
  /\ opCount = 0
  /\ linkSeq = 0
  /\ procs = [p \in Procs |-> IdleProc]

\* ---------------------------------------------------------------- inputs
\* Parsed LLDP records (ParsedLLDPNeighbor) the devices' output gives.
\* "sw2.lab": SW2 once the domain is cut, and a substring of SW21.
NbrSw2 ==
  [localInterface |-> "GE1", remoteDeviceName |-> <<"s","w","2",".","l","a","b">>,
   remoteInterface |-> "GE24", remoteIP |-> NoIP, rawData |-> "GE1 sw2.lab GE24"]
\* "Sw1": SW1 only; no remote interface reported.
NbrSw1 ==
  [localInterface |-> "GE2", remoteDeviceName |-> <<"S","w","1">>,
   remoteInterface |-> "", remoteIP |-> NoIP, rawData |-> "GE2 Sw1"]
\* An unregistered name on GE1, no address.
NbrUnknown ==
  [localInterface |-> "GE1", remoteDeviceName |-> <<"x","9">>,
   remoteInterface |-> "GE9", remoteIP |-> NoIP, rawData |-> "GE1 x9 GE9"]
\* An unregistered name with the address of device 2, as the parsers cut it
\* from the line (dotted quad).
NbrByIP ==
  [localInterface |-> "GE2", remoteDeviceName |-> <<"x","9">>,
   remoteInterface |-> "GE7", remoteIP |-> [addr |-> "10.0.0.2", mask |-> ""],
   rawData |-> "GE2 x9 GE7 10.0.0.2"]
\* The same with the address in prefix notation.
NbrByIPMask ==
  [localInterface |-> "GE2", remoteDeviceName |-> <<"x","9">>,
   remoteInterface |-> "GE7", remoteIP |-> [addr |-> "10.0.0.2", mask |-> "/32"],
   rawData |-> "GE2 x9 GE7 10.0.0.2/32"]
\* A MikroTik row without an address: the identity lands in remoteIP.
NbrNoAddress ==
  [localInterface |-> "ether1", remoteDeviceName |-> <<"M","T">>,
   remoteInterface |-> "", remoteIP |-> [addr |-> "SW-ACCESS-01", mask |-> ""],
   rawData |-> "ether1 SW-ACCESS-01 MT"]
\* A name whose first segment is empty.
NbrDot ==
  [localInterface |-> "GE2", remoteDeviceName |-> <<".","x">>,
   remoteInterface |-> "GE5", remoteIP |-> NoIP, rawData |-> "GE2 .x GE5"]

\* Parsed OSPF records (ParsedOSPFNeighbor).
OspfA ==
  [interface |-> "GE1", neighborId |-> <<"r","2">>,
   neighborIP |-> [addr |-> "10.0.0.2", mask |-> ""], rawData |-> "ospf r2"]
OspfB ==
  [interface |-> "GE1", neighborId |-> <<"r","3">>,
   neighborIP |-> [addr |-> "10.0.0.3", mask |-> ""], rawData |-> "ospf r3"]

\* A line whose second column is no address (parts[1] is taken as it is).
OspfNoAddress ==
  [interface |-> "GE1", neighborId |-> <<"r","2">>,
   neighborIP |-> [addr |-> "Full/DR", mask |-> ""], rawData |-> "ospf r2 Full/DR"]

\* Parsed interface records (ParsedInterface).
IfaceUp == [name |-> "GE1", operStatus |-> "up"]
IfaceDown == [name |-> "GE1", operStatus |-> "down"]

\* An id no device has.
UnknownDeviceId == 9

\* ------------------------------------------------ inference, one request
\* at a time: collections that reach the device, sweeps, manual link edits.
\* What the LLDP command of device d may parse to.
InferLLDP(d) ==
  IF d = 1
    THEN { <<NbrSw2>>, <<NbrUnknown>>, <<NbrByIP>>, <<NbrByIPMask>>,
           <<NbrSw2, NbrUnknown>> }
    ELSE { <<NbrSw1>>, <<NbrDot>> }

InferStep(p) ==
  \/ \E d \in {1, 2} : CollectStart(p, d, <<"lldp">>)
  \/ CollectInsertHistory(p)
  \/ CollectConnect(p, "ready")
  \/ \E l \in InferLLDP(procs[p].deviceId) : CollectExecLLDP(p, "ok", l)
  \/ CollectUpsertLLDP(p)
  \/ \E d \in DeviceIds \cup {NoDevice} : CollectResolveName(p, d)
  \/ \E d \in DeviceIds \cup {NoDevice} : CollectResolveIP(p, d)
  \/ \E id \in 0..linkSeq : CollectCheckLink(p, id)
  \/ CollectInsertLink(p)
  \/ CollectUpdateLink(p)
  \/ CollectSetRemoteId(p)
  \/ CollectUpdateDevice(p)
  \/ CollectComplete(p)
  \/ \E rows \in SweepQuery(neighbors) : SweepStart(p, rows)
  \/ SweepCheck(p)
  \/ SweepInsert(p)
  \/ \E src \in {1, 2}, tgt \in {1, 2} :
        src # tgt /\ CreateLink(p, src, "M1", tgt, "M2")
  \/ \E id \in 1..linkSeq : DeleteLink(p, id)

NextInfer == InferStep("h1")

SpecInfer == Init /\ [][NextInfer]_vars

\* Two requests served at once: their awaits interleave freely.  Device 1
\* reports device 2 and device 2 reports device 1.
RaceLLDP(d) == IF d = 1 THEN <<NbrSw2>> ELSE <<NbrSw1>>

RaceStep(p) ==
  \/ \E d \in {1, 2} : CollectStart(p, d, <<"lldp">>)
  \/ CollectInsertHistory(p)
  \/ CollectConnect(p, "ready")
  \/ CollectExecLLDP(p, "ok", RaceLLDP(procs[p].deviceId))
  \/ CollectUpsertLLDP(p)
  \/ \E d \in DeviceIds : CollectResolveName(p, d)
  \/ \E id \in 0..linkSeq : CollectCheckLink(p, id)
  \/ CollectInsertLink(p)
  \/ CollectUpdateLink(p)
  \/ CollectSetRemoteId(p)
  \/ CollectUpdateDevice(p)
  \/ CollectComplete(p)
  \/ \E rows \in SweepQuery(neighbors) : SweepStart(p, rows)
  \/ SweepCheck(p)
  \/ SweepInsert(p)
  \/ \E id \in 1..linkSeq : DeleteLink(p, id)

NextRace == \E p \in Procs : RaceStep(p)

SpecRace == Init /\ [][NextRace]_vars

\* Repeated observations: collections of device 1, one at a time, while the
\* clock runs.  GE1 is reported with changing remote names, also twice in
\* one LLDP output.
ObserveLLDP == { <<NbrSw2>>, <<NbrUnknown>>, <<NbrSw2, NbrUnknown>> }
ObserveOSPF == { <<OspfA>>, <<OspfB>> }

ObserveStep(p) ==
  \/ \E t \in { <<"lldp">>, <<"ospf">> } : CollectStart(p, 1, t)
  \/ CollectInsertHistory(p)
  \/ CollectConnect(p, "ready")
  \/ \E l \in ObserveLLDP : CollectExecLLDP(p, "ok", l)
  \/ \E l \in ObserveOSPF : CollectExecOSPF(p, "ok", l)
  \/ CollectUpsertLLDP(p)
  \/ \E d \in DeviceIds \cup {NoDevice} : CollectResolveName(p, d)
  \/ \E id \in 0..linkSeq : CollectCheckLink(p, id)
  \/ CollectInsertLink(p)
  \/ CollectUpdateLink(p)
  \/ CollectSetRemoteId(p)
  \/ CollectUpsertOSPF(p)
  \/ CollectUpdateDevice(p)
  \/ CollectComplete(p)

NextObserve == ObserveStep("h1") \/ Tick

SpecObserve == Init /\ [][NextObserve]_vars

\* The three flows, one request at a time, with every way the session and
\* the commands can go.  Device 1 answers; 9 is no device; 3 has no
\* credentials.
FlowTypes == { <<"lldp">>, <<"ospf", "system">>, <<"interfaces">> }
FlowLLDP == { <<>>, <<NbrSw2>>, <<NbrSw2, NbrNoAddress>> }
FlowOSPF == { <<OspfA>>, <<OspfNoAddress>> }
FlowIfaces == { <<IfaceUp>>, <<IfaceDown, IfaceUp>> }

FlowStep(p) ==
  \/ /\ opCount < MaxFlowOps
     /\ \/ \E d \in {1, UnknownDeviceId}, t \in FlowTypes : CollectStart(p, d, t)
        \/ \E ds \in {{}, {2}}, t \in { <<"lldp">>, <<"ospf">> } :
             BatchStart(p, ds, t)
        \/ \E d \in {1, 3, UnknownDeviceId} : TestStart(p, d)
  \/ CollectInsertHistory(p)
  \/ \E o \in ConnectOutcomes : CollectConnect(p, o)
  \/ \E o \in ExecOutcomes, l \in FlowLLDP : CollectExecLLDP(p, o, l)
  \/ \E o \in ExecOutcomes, l \in FlowOSPF : CollectExecOSPF(p, o, l)
  \/ \E o \in ExecOutcomes, l \in FlowIfaces : CollectExecInterfaces(p, o, l)
  \/ \E o \in ExecOutcomes, m \in {"S5720", NullText} : CollectExecSystem(p, o, m)
  \/ CollectUpsertLLDP(p)
  \/ \E d \in DeviceIds \cup {NoDevice} : CollectResolveName(p, d)
  \/ \E id \in 0..linkSeq : CollectCheckLink(p, id)
  \/ CollectInsertLink(p)
  \/ CollectUpdateLink(p)
  \/ CollectSetRemoteId(p)
  \/ CollectUpsertOSPF(p)
  \/ CollectUpsertInterface(p)
  \/ CollectUpdateDevice(p)
  \/ CollectComplete(p)
  \/ CollectFailHistory(p)
  \/ CollectErrorDevice(p)
  \/ BatchInsertHistory(p)
  \/ \E o \in ConnectOutcomes : BatchConnect(p, o)
  \/ \E o \in ExecOutcomes : BatchExecLLDP(p, o, <<NbrSw1>>)
  \/ BatchUpdateDevice(p)
  \/ BatchComplete(p)
  \/ BatchFailHistory(p)
  \/ BatchErrorDevice(p)
  \/ \E o \in ConnectOutcomes : TestConnect(p, o)
  \/ \E o \in ExecOutcomes : TestExec(p, o)
  \/ TestOnlineDevice(p)
  \/ TestErrorDevice(p)

NextFlow == FlowStep("h1")

SpecFlow == Init /\ [][NextFlow]_vars

\* Collections of device 1, one at a time, each suspension point settled by
\* what the device does and by the timers; every enabled continuation runs.
LiveTypes == { <<"lldp">>, <<"ospf", "system">> }

LiveStep(p) ==
  \/ /\ opCount < MaxFlowOps
     /\ \E t \in LiveTypes : CollectStart(p, 1, t)
  \/ CollectInsertHistory(p)
  \/ \E w \in ConnectWire \cup ExecWire : DeviceBehaves(p, w)
  \/ /\ Behaved(p) /\ Settles(ConnectResolution(procs[p].wire.w))
     /\ CollectConnect(p, ConnectResolution(procs[p].wire.w))
  \/ /\ Behaved(p) /\ Settles(ExecResolution(procs[p].wire.w))
     /\ \/ \E l \in { <<NbrSw2>>, <<NbrNoAddress>> } :
             CollectExecLLDP(p, ExecResolution(procs[p].wire.w), l)
        \/ CollectExecOSPF(p, ExecResolution(procs[p].wire.w), <<OspfA>>)
        \/ CollectExecSystem(p, ExecResolution(procs[p].wire.w), "S5720")
  \/ CollectUpsertLLDP(p)
  \/ \E d \in DeviceIds : CollectResolveName(p, d)
  \/ \E id \in 0..linkSeq : CollectCheckLink(p, id)
  \/ CollectInsertLink(p)
  \/ CollectUpdateLink(p)
  \/ CollectSetRemoteId(p)
  \/ CollectUpsertOSPF(p)
  \/ CollectUpdateDevice(p)
  \/ CollectComplete(p)
  \/ CollectFailHistory(p)
  \/ CollectErrorDevice(p)

NextLive == LiveStep("h1")

SpecLive == Init /\ [][NextLive]_vars /\ WF_vars(NextLive)

\* The command block of a collection of device 1: the caller lists the
\* operations in any order, every command can go any way.
OrderTypes ==
  { <<"system", "lldp">>, <<"interfaces", "ospf", "lldp">>,
    <<"lldp", "ospf", "interfaces", "system">> }

OrderStep(p) ==
  \/ /\ opCount < MaxFlowOps
     /\ \E t \in OrderTypes : CollectStart(p, 1, t)
  \/ CollectInsertHistory(p)
  \/ \E o \in ConnectOutcomes : CollectConnect(p, o)
  \/ \E o \in ExecOutcomes, l \in { <<>>, <<NbrUnknown>> } :
       CollectExecLLDP(p, o, l)
  \/ \E o \in ExecOutcomes : CollectExecOSPF(p, o, <<OspfA>>)
  \/ \E o \in ExecOutcomes : CollectExecInterfaces(p, o, <<IfaceUp>>)
  \/ \E o \in ExecOutcomes : CollectExecSystem(p, o, "S5720")
  \/ CollectUpsertLLDP(p)
  \/ CollectResolveName(p, NoDevice)
  \/ CollectUpsertOSPF(p)
  \/ CollectUpsertInterface(p)
  \/ CollectUpdateDevice(p)
  \/ CollectComplete(p)
  \/ CollectFailHistory(p)
  \/ CollectErrorDevice(p)

NextOrder == OrderStep("h1")

SpecOrder == Init /\ [][NextOrder]_vars

\* Collections that are run again: the output of a device is the same every
\* time it is collected, the session opens and the commands succeed.
RetryLLDP(d) == IF d = 1 THEN <<NbrSw2, NbrByIP>> ELSE <<NbrSw1>>
RetryOSPF(d) == IF d = 1 THEN <<OspfA>> ELSE <<OspfB>>

RetryStep(p) ==
  \/ \E d \in {1, 2} : CollectStart(p, d, <<"lldp", "ospf">>)
  \/ CollectInsertHistory(p)
  \/ CollectConnect(p, "ready")
  \/ CollectExecLLDP(p, "ok", RetryLLDP(procs[p].deviceId))
  \/ CollectExecOSPF(p, "ok", RetryOSPF(procs[p].deviceId))
  \/ CollectUpsertLLDP(p)
  \/ \E d \in DeviceIds \cup {NoDevice} : CollectResolveName(p, d)
  \/ \E d \in DeviceIds \cup {NoDevice} : CollectResolveIP(p, d)
  \/ \E id \in 0..linkSeq : CollectCheckLink(p, id)
  \/ CollectInsertLink(p)
  \/ CollectUpdateLink(p)
  \/ CollectSetRemoteId(p)
  \/ CollectUpsertOSPF(p)
  \/ CollectUpdateDevice(p)
  \/ CollectComplete(p)

NextRetry == RetryStep("h1") \/ Tick

SpecRetry == Init /\ [][NextRetry]_vars

\* Every handler that writes network_devices, one request at a time: the
\* collection, the batch and the connection test of the server, and the
\* collection of the edge function.
FrameTypes == { <<"lldp">>, <<"system">>, <<"interfaces", "system">> }

FrameStep(p) ==
  \/ /\ opCount < MaxFlowOps
     /\ \/ \E d \in {1, UnknownDeviceId}, t \in FrameTypes : CollectStart(p, d, t)
        \/ \E ds \in {{}, {2}} : BatchStart(p, ds, <<"lldp">>)
        \/ \E d \in {2, 3, UnknownDeviceId} : TestStart(p, d)
        \/ \E d \in {1, 2, UnknownDeviceId}, t \in FrameTypes : EdgeStart(p, d, t)
  \/ CollectInsertHistory(p)
  \/ \E o \in ConnectOutcomes : CollectConnect(p, o)
  \/ \E o \in {"ok", "timeout"} : CollectExecLLDP(p, o, <<NbrSw2>>)
  \/ \E o \in {"ok", "timeout"} : CollectExecInterfaces(p, o, <<IfaceUp>>)
  \/ \E o \in {"ok", "timeout"}, m \in {"S5720", NullText} :
       CollectExecSystem(p, o, m)
  \/ CollectUpsertLLDP(p)
  \/ \E d \in DeviceIds \cup {NoDevice} : CollectResolveName(p, d)
  \/ \E id \in 0..linkSeq : CollectCheckLink(p, id)
  \/ CollectInsertLink(p)
  \/ CollectUpdateLink(p)
  \/ CollectSetRemoteId(p)
  \/ CollectUpsertInterface(p)
  \/ CollectUpdateDevice(p)
  \/ CollectComplete(p)
  \/ CollectFailHistory(p)
  \/ CollectErrorDevice(p)
  \/ BatchInsertHistory(p)
  \/ \E o \in ConnectOutcomes : BatchConnect(p, o)
  \/ \E o \in {"ok", "timeout"} : BatchExecLLDP(p, o, <<NbrSw1>>)
  \/ BatchUpdateDevice(p)
  \/ BatchComplete(p)
  \/ BatchFailHistory(p)
  \/ BatchErrorDevice(p)
  \/ \E o \in ConnectOutcomes : TestConnect(p, o)
  \/ \E o \in {"ok", "execError"} : TestExec(p, o)
  \/ TestOnlineDevice(p)
  \/ TestErrorDevice(p)
  \/ EdgeInsertHistory(p)
  \/ EdgeCompleteHistory(p)
  \/ EdgeUpsertLLDP(p)
  \/ EdgeUpsertInterface(p)
  \/ EdgeUpdateDevice(p)

NextFrame == FrameStep("h1")

SpecFrame == Init /\ [][NextFrame]_vars

\* The parser lookup and the Huawei neighbor parsers applied to a device's
\* vendor tag and the output of its LLDP command.  An output is a first
\* line, then up to MaxLines lines, each a data line of some shape, a blank
\* line or a separator; or the output the edge function simulates.
ParseFirstLines ==
  { <<"L", "o", "c", "a", "l", " ", "I", "n", "t", "f", " ", " ", " ", " ", "N", "e", "i", "g", "h", "b", "o", "r", " ", "D", "e", "v", " ", " ", "N", "e", "i", "g", "h", "b", "o", "r", " ", "I", "n", "t", "f">>,
    <<" ", " ", "L", "o", "c", "a", "l", " ", "I", "n", "t", "f", " ", " ", "N", "e", "i", "g", "h", "b", "o", "r", " ", "D", "e", "v", " ", " ", "N", "e", "i", "g", "h", "b", "o", "r", " ", "I", "n", "t", "f">>,
    <<"T", "o", "t", "a", "l", ":", " ", "2">> }

ParseLines ==
  { <<"G", "E", "1", " ", " ", "S", "W", "-", "A", " ", " ", "G", "E", "2", "4">>,
    <<"g", "e", "4", " ", " ", " ", "r", "1", " ", " ", " ", "X", "G", "E", "2">>,
    <<"1", "0", "G", "E", "3", " ", "S", "W", "-", "A", " ", "M", "E", "t", "h", "0">>,
    <<"M", "E", "t", "h", "0", "\t", "S", "W", "-", "A", "\t", "G", "E", "9", " ", "1", "2", "0">>,
    <<"E", "t", "h", "-", "T", "r", "u", "n", "k", "1", " ", " ", "r", " ", "b", " ", " ", "G", "E", "2">>,
    <<"X", "G", "E", "2", " ", " ", "S", "W", "-", "A", " ", " ", "G", "E", "5", " ", " ", "1", "0", ".", "0", ".", "0", ".", "2">>,
    <<"V", "l", "a", "n", "i", "f", "1", " ", " ", "S", "W", "-", "A", " ", " ", "G", "E", "7">>,
    <<"G", "E", "6", " ", " ", "S", "W", "-", "A">>,
    <<" ", " ", "G", "E", "8", " ", " ", " ", "r", "1", " ", " ", " ", " ", "G", "E", "1", " ", " ">>,
    <<>>, <<"-", "-", "-", "-", "-">> }

RECURSIVE ParseBodies(_)
ParseBodies(n) ==
  IF n = 0 THEN {<<>>}
  ELSE ParseBodies(n - 1) \cup
       {Append(b, l) : b \in {x \in ParseBodies(n - 1) : Len(x) = n - 1}, l \in ParseLines}

SimulatedLLDP ==
  << <<>>,
     <<"L", "o", "c", "a", "l", " ", "I", "n", "t", "f", " ", " ", " ", " ", "N", "e", "i", "g", "h", "b", "o", "r", " ", "D", "e", "v", " ", " ", " ", " ", " ", " ", " ", " ", " ", " ", " ", "N", "e", "i", "g", "h", "b", "o", "r", " ", "I", "n", "t", "f", " ", " ", " ", " ">>,
     <<"-", "-", "-", "-", "-", "-", "-", "-", "-", "-", "-", "-", "-", "-", "-", "-", "-", "-", "-", "-", "-", "-", "-", "-", "-", "-", "-", "-", "-", "-", "-", "-", "-", "-", "-", "-", "-", "-", "-", "-", "-", "-", "-", "-", "-", "-", "-", "-", "-", "-", "-", "-", "-", "-", "-", "-", "-">>,
     <<"G", "E", "0", "/", "0", "/", "1", " ", " ", " ", " ", " ", " ", " ", "S", "W", "-", "D", "I", "S", "T", "-", "0", "1", " ", " ", " ", " ", " ", " ", " ", " ", " ", " ", " ", " ", " ", "G", "E", "0", "/", "0", "/", "2", "4">>,
     <<"G", "E", "0", "/", "0", "/", "2", " ", " ", " ", " ", " ", " ", " ", "S", "W", "-", "D", "I", "S", "T", "-", "0", "2", " ", " ", " ", " ", " ", " ", " ", " ", " ", " ", " ", " ", " ", "G", "E", "0", "/", "0", "/", "2", "4">>,
     <<"G", "E", "0", "/", "0", "/", "3", " ", " ", " ", " ", " ", " ", " ", "S", "W", "-", "A", "C", "C", "E", "S", "S", "-", "0", "1", " ", " ", " ", " ", " ", " ", " ", " ", " ", " ", " ", "G", "E", "0", "/", "0", "/", "1">>,
     <<"G", "E", "0", "/", "0", "/", "4", " ", " ", " ", " ", " ", " ", " ", "R", "O", "U", "T", "E", "R", "-", "E", "D", "G", "E", "-", "0", "1", " ", " ", " ", " ", " ", " ", " ", " ", " ", "G", "E", "0", "/", "0", "/", "0">>,
     <<>> >>

ParseTexts ==
  {<<f>> \o b : f \in ParseFirstLines, b \in ParseBodies(MaxLines)} \cup {SimulatedLLDP}

ParseArgs ==
  {[vendor |-> v, rawOutput |-> SimulatedLLDP] : v \in VendorValues} \cup
  {[vendor |-> "huawei", rawOutput |-> t] : t \in ParseTexts}

InitParse ==
  /\ devStatus = [d \in DeviceIds |-> DeviceRow(d)]
  /\ neighbors = {}
  /\ links = <<>>
  /\ interfaces = {}
  /\ history = {}
  /\ now = 0
  /\ opCount = 0
  /\ linkSeq = 0
  /\ \E a \in ParseArgs :
       procs = [p \in Procs |->
                  IF p = "h1" THEN [IdleProc EXCEPT !.call.arg = a] ELSE IdleProc]

NextParse ==
  \/ CallGetVendorParser("h1")
  \/ CallGetVendorCommands("h1")
  \/ CallParseLLDPNeighbors("h1")
  \/ CallParseHuaweiLLDP("h1")

SpecParse == InitParse /\ [][NextParse]_vars

\* devicesToNodes(devices): the nodes of the first n devices, on the grid.
devicesToNodes(n) ==
  [index \in 1..n |->
     [id |-> index, x |-> ((index - 1) % 5) * 200 + 100,
      y |-> ((index - 1) \div 5) * 150 + 100]]

\* The layout as useTopology asks for it: the grid of up to MaxDevices
\* devices, and the links that are there among these four.
GridLinks ==
  << [source |-> 1, target |-> 3], [source |-> 1, target |-> 4],
     [source |-> 3, target |-> 4], [source |-> 2, target |-> 5] >>

GridEdgeLists ==
  {SelectSeq(GridLinks, LAMBDA e : e \in S) :
     S \in SUBSET {GridLinks[i] : i \in 1..Len(GridLinks)}}

InitGrid ==
  /\ devStatus = [d \in DeviceIds |-> DeviceRow(d)]
  /\ neighbors = {}
  /\ links = <<>>
  /\ interfaces = {}
  /\ history = {}
  /\ now = 0
  /\ opCount = 0
  /\ linkSeq = 0
  /\ \E n \in 0..MaxDevices, edges \in GridEdgeLists :
       procs = [p \in Procs |->
                  IF p = "h1"
                    THEN [IdleProc EXCEPT !.call.arg =
                            [nodes |-> devicesToNodes(n), edges |-> edges]]
                    ELSE IdleProc]

NextGrid == CallCalculateLayout("h1")

SpecGrid == InitGrid /\ [][NextGrid]_vars

\* Startup validation over databases: the tables all there or one missing,
\* the neighbor columns all there or one missing, and any of the unique
\* constraints the repository's table definitions carry (the API's
\* init script on three columns, the collector function's on four) or a
\* narrower or an unrelated one.
SchemaTables ==
  {REQUIRED_TABLES, REQUIRED_TABLES \ {"topology_neighbors"},
   REQUIRED_TABLES \ {"topology_snapshots"}}
SchemaColumns ==
  {REQUIRED_NEIGHBOR_COLUMNS, REQUIRED_NEIGHBOR_COLUMNS \ {"remote_ip"}}
UniqueInit == {"local_device_id", "local_interface", "discovery_protocol"}
UniqueCollector ==
  {"local_device_id", "local_interface", "remote_device_name",
   "discovery_protocol"}
SchemaUniques ==
  SUBSET {UniqueInit, UniqueCollector,
          {"local_device_id", "local_interface"}, {"remote_ip"}}

InitSchema ==
  /\ devStatus = [d \in DeviceIds |-> DeviceRow(d)]
  /\ neighbors = {}
  /\ links = <<>>
  /\ interfaces = {}
  /\ history = {}
  /\ now = 0
  /\ opCount = 0
  /\ linkSeq = 0
  /\ \E t \in SchemaTables, c \in SchemaColumns, u \in SchemaUniques :
       procs = [p \in Procs |->
                  IF p = "h1"
                    THEN [IdleProc EXCEPT !.call.arg =
                            [tables |-> t, columns |-> c, uniques |-> u]]
                    ELSE IdleProc]

NextSchema == CallValidateSchema("h1")

SpecSchema == InitSchema /\ [][NextSchema]_vars

\* The layout of up to MaxNodes nodes: positions of the initial grid
\* (devicesToNodes) and one next to a grid position, any two nodes
\* possibly at one position;
\* edges between nodes, to a node that is not there, from a node to itself.
LayoutPositions == {<<100, 100>>, <<300, 100>>, <<100, 250>>, <<101, 100>>}

RECURSIVE LayoutNodeLists(_)
LayoutNodeLists(n) ==
  IF n = 0 THEN {<<>>}
  ELSE LayoutNodeLists(n - 1) \cup
       {Append(l, [id |-> n, x |-> pos[1], y |-> pos[2]]) :
          l \in {k \in LayoutNodeLists(n - 1) : Len(k) = n - 1},
          pos \in LayoutPositions}

LayoutEdgeLists ==
  { <<>>, <<[source |-> 1, target |-> 2]>>,
    <<[source |-> 1, target |-> 2], [source |-> 2, target |-> 3]>>,
    <<[source |-> 1, target |-> 9], [source |-> 1, target |-> 1]>> }

InitLayout ==
  /\ devStatus = [d \in DeviceIds |-> DeviceRow(d)]
  /\ neighbors = {}
  /\ links = <<>>
  /\ interfaces = {}
  /\ history = {}
  /\ now = 0
  /\ opCount = 0
  /\ linkSeq = 0
  /\ \E nodes \in LayoutNodeLists(MaxNodes), edges \in LayoutEdgeLists :
       procs = [p \in Procs |->
                  IF p = "h1"
                    THEN [IdleProc EXCEPT !.call.arg = [nodes |-> nodes, edges |-> edges]]
                    ELSE IdleProc]

NextLayout == CallCalculateLayout("h1")

SpecLayout == InitLayout /\ [][NextLayout]_vars

\* ------------------------------------------------------------ properties
EndPoints(l) == {l.source_device_id, l.target_device_id}
LinkBetween(ls, a, b) == \E i \in 1..Len(ls) : EndPoints(ls[i]) = {a, b}
LLDPLoopPcs ==
  {"upsertLLDP", "resolveName", "resolveIP", "checkLink", "insertLink",
   "updateLink", "setRemoteId"}
\* The neighbor row of a key in a table (the table holds one).
RowOf(tbl, d, ifc, proto) ==
  CHOOSE r \in tbl : NeighborConflictKey(r) = <<d, ifc, proto>>

\* C1: requests served one at a time (manual link creations and deletions,
\* collections, sweeps): no inference-created link row was inserted for a
\* device pair that already had a row in either direction, manual ones
\* included; hence at most one inference-created row per unordered pair.
C1_InferenceNeverDuplicatesPair ==
  \A i \in 1..Len(links) :
    links[i].auto_created =>
      \A j \in 1..(i - 1) : EndPoints(links[j]) # EndPoints(links[i])

\* C1 witness: a collection of A resolved B, found the manual row B -> A and
\* goes on without inserting.
C1_Witness ==
  \E p \in Procs :
    /\ At(p, "collect", "setRemoteId")
    /\ procs[p].existingLink # NoLink
    /\ \E i \in 1..Len(links) :
         /\ links[i].id = procs[p].existingLink
         /\ ~links[i].auto_created
         /\ links[i].source_device_id = procs[p].remoteDevice
         /\ links[i].target_device_id = procs[p].deviceId
         /\ procs[p].remoteDevice # procs[p].deviceId
    /\ Len(links) = 1

\* C3: a sweep that runs right after a completed sweep (nothing served in
\* between) inserts nothing, counts every row it read as already existing,
\* and no step of it changes the device pair of a link row.
C3_SecondSweepState ==
  \A p \in Procs :
    (procs[p].kind = "sweep" /\ procs[p].after = "sweep") =>
      /\ procs[p].created = 0
      /\ procs[p].pc # "sInsert"
      /\ procs[p].pc = "done" => procs[p].skipped = Len(procs[p].queue)

C3_SweepKeepsPairs ==
  \A p \in Procs :
    (procs[p].kind = "sweep" /\ procs'[p].kind = "sweep") =>
      /\ Len(links') >= Len(links)
      /\ \A i \in 1..Len(links) :
           /\ links'[i].id = links[i].id
           /\ links'[i].source_device_id = links[i].source_device_id
           /\ links'[i].target_device_id = links[i].target_device_id

C3_SweepIdempotent == []C3_SecondSweepState /\ [][C3_SweepKeepsPairs]_vars

\* C3 witness: the second of two consecutive sweeps has finished and found a
\* pair to count.
C3_Witness ==
  \E p \in Procs :
    /\ At(p, "sweep", "done")
    /\ procs[p].after = "sweep"
    /\ procs[p].skipped >= 1
    /\ procs[p].created = 0

\* C6: what the claim expects of the LLDP record n once the collection of
\* device c is through with it: resolved by name (domain cut, any case) or,
\* failing that, by the reported address, the neighbor row points at the
\* resolved device and a link joins c and it; with no matching name and no
\* address, the row's reference is left as it was and no link is created.
C6_NameCandidates(n) ==
  IF n.remoteDeviceName = <<>> THEN {} ELSE NameQueryRows(n.remoteDeviceName)
C6_AddressCandidates(n) ==
  IF n.remoteIP = NoIP THEN {}
  ELSE {d \in DeviceIds : Registry[d].ip_address.addr = n.remoteIP.addr}
C6_Candidates(n) ==
  IF C6_NameCandidates(n) # {} THEN C6_NameCandidates(n)
  ELSE C6_AddressCandidates(n)

C6_Expected(p) ==
  LET n == CurLLDP(p)
      c == procs[p].deviceId
      row == RowOf(neighbors', c, n.localInterface, "lldp")
  IN  /\ C6_Candidates(n) # {} =>
           \E d \in C6_Candidates(n) :
              row.remote_device_id = d /\ LinkBetween(links', c, d)
      /\ (C6_NameCandidates(n) = {} /\ n.remoteIP = NoIP) =>
           neighbors' = neighbors /\ links' = links

\* The step that ends the processing of the current LLDP record.
C6_RecordDone(p) ==
  /\ procs[p].kind = "collect"
  /\ procs[p].pc \in LLDPLoopPcs
  /\ procs'[p].kind = "collect"
  /\ \/ procs'[p].pc \notin LLDPLoopPcs
     \/ procs'[p].idx = procs[p].idx + 1

C6_ResolvedNeighborGetsLink ==
  [][\A p \in Procs : C6_RecordDone(p) => C6_Expected(p)]_vars

\* C2: the two requests of the claim's case (a collection of A with a
\* collection of B, or a collection with a sweep) ran interleaved on a fresh
\* store and both have finished: at most one link row for each unordered
\* device pair.
C2_Case ==
  /\ opCount = 2
  /\ \A p \in Procs : procs[p].pc = "done"
  /\ \/ /\ \A p \in Procs : procs[p].kind = "collect"
        /\ procs["h1"].deviceId # procs["h2"].deviceId
     \/ {procs[p].kind : p \in Procs} = {"collect", "sweep"}

C2_OneRowPerPairAfterRace ==
  C2_Case =>
    \A i, j \in 1..Len(links) :
      EndPoints(links[i]) = EndPoints(links[j]) => i = j

\* C4: the neighbor table holds at most one row per (local device, local
\* interface, discovery protocol); an observation on a key that has a row
\* leaves the number of rows as it is and the key's row carries the
\* observation's remote name, remote interface, remote address and raw data.
C4_Key(r) == <<r.local_device_id, r.local_interface, r.discovery_protocol>>

C4_OneRowPerKey ==
  \A r1, r2 \in neighbors : C4_Key(r1) = C4_Key(r2) => r1 = r2

\* The observation the request in slot p is about to write, if any.
C4_Observing(p) ==
  /\ procs[p].kind = "collect"
  /\ procs[p].pc \in {"upsertLLDP", "upsertOSPF"}
  /\ procs'[p] # procs[p]
C4_Observation(p) ==
  IF procs[p].pc = "upsertLLDP"
    THEN LET n == procs[p].lldp.items[procs[p].idx]
         IN  [key |-> <<procs[p].deviceId, n.localInterface, "lldp">>,
              name |-> n.remoteDeviceName, iface |-> n.remoteInterface,
              ip |-> n.remoteIP.addr, raw |-> n.rawData]
    ELSE LET n == procs[p].ospf.items[procs[p].idx]
         IN  [key |-> <<procs[p].deviceId, n.interface, "ospf">>,
              name |-> n.neighborId, iface |-> "",
              ip |-> n.neighborIP.addr, raw |-> n.rawData]

C4_OverwritesInPlace ==
  \A p \in Procs :
    C4_Observing(p) =>
      LET o == C4_Observation(p)
      IN  /\ \E r \in neighbors' :
               /\ C4_Key(r) = o.key
               /\ r.remote_device_name = o.name
               /\ r.remote_interface = o.iface
               /\ r.remote_ip.addr = o.ip
               /\ r.raw_data = o.raw
          /\ (\E r \in neighbors : C4_Key(r) = o.key) =>
               Cardinality(neighbors') = Cardinality(neighbors)

C4_NeighborUpsert == []C4_OneRowPerKey /\ [][C4_OverwritesInPlace]_vars

\* C4 witness: the row of GE1, first written for "sw2.lab" and resolved to
\* device 2, now carries the unregistered name of a later observation.
C4_Witness ==
  \E r \in neighbors :
    /\ r.local_interface = "GE1" /\ r.discovery_protocol = "lldp"
    /\ r.remote_device_name = NbrUnknown.remoteDeviceName
    /\ r.remote_device_id = 2
    /\ r.last_updated > r.discovered_at
    /\ Cardinality(neighbors) = 1

\* C5 as amended: an observation on a key that has a row leaves the row's
\* discovered-at as the first observation wrote it and sets last-updated to
\* the timestamp the observation read; with requests served one at a time
\* and a clock that does not go back, last-updated never decreases.
C5_KeepsDiscoveredAt ==
  \A p \in Procs :
    C4_Observing(p) =>
      \A r \in neighbors :
        C4_Key(r) = C4_Observation(p).key =>
          \E r2 \in neighbors' :
             /\ C4_Key(r2) = C4_Key(r)
             /\ r2.discovered_at = r.discovered_at
             /\ r2.last_updated = procs[p].ts
             /\ r2.last_updated >= r.last_updated

C5_DiscoveredAtKept == [][C5_KeepsDiscoveredAt]_vars

\* C5 witness: a row observed again two milliseconds after the first time.
C5_Witness ==
  \E r \in neighbors :
    /\ r.discovery_protocol = "ospf"
    /\ r.discovered_at = 0
    /\ r.last_updated = 2

\* C5 as stated: each later observation strictly increases last-updated.
C5_StrictlyIncreases ==
  \A p \in Procs :
    C4_Observing(p) =>
      \A r \in neighbors :
        C4_Key(r) = C4_Observation(p).key =>
          \E r2 \in neighbors' :
             /\ C4_Key(r2) = C4_Key(r)
             /\ r2.discovered_at = r.discovered_at
             /\ r2.last_updated > r.last_updated

C5_LastUpdatedStrict == [][C5_StrictlyIncreases]_vars

\* C7: no flow ends with its session open: a single-device collection or a
\* connection test that has answered, and a batch collection that is through
\* with a device, hold no connection any more.
C7_SessionClosedOnExit ==
  \A p \in Procs :
    /\ (procs[p].kind \in {"collect", "test"} /\ procs[p].pc = "done") =>
         ~procs[p].ssh.client
    /\ (/\ procs[p].kind = "batch"
        /\ procs[p].pc \in {"bInsertHistory", "done"}
        /\ Len(procs[p].results) > 0) =>
         ~procs[p].ssh.client

\* C8: a collection whose session did not open ran no command, recorded the
\* error on its attempt row (failed), set the device to 'error', and none of
\* its steps changed the neighbor, link or interface tables.
C8_FailedOpen(p) ==
  /\ procs[p].kind = "collect"
  /\ ~procs[p].opened
  /\ procs[p].pc \in {"failHistory", "errorDevice", "done"}
  /\ procs[p].http # 404

C8_FailedState ==
  \A p \in Procs :
    C8_FailedOpen(p) =>
      /\ procs[p].executed = <<>>
      /\ ~procs[p].success
      /\ procs[p].error # ""
      /\ procs[p].pc \in {"errorDevice", "done"} =>
           \E h \in history :
              /\ h.id = procs[p].historyId
              /\ h.status = "failed"
              /\ h.error_message = procs[p].error
      /\ procs[p].pc = "done" =>
           /\ devStatus[procs[p].deviceId].status = "error"
           /\ procs[p].http = 500

C8_TouchesNoRow ==
  \A p \in Procs :
    (/\ procs[p].kind = "collect" /\ procs'[p].kind = "collect"
     /\ procs[p].historyId = procs'[p].historyId
     /\ ~procs'[p].opened) =>
      /\ neighbors' = neighbors
      /\ links' = links
      /\ interfaces' = interfaces

C8_OpenFailureGoesToFailed == []C8_FailedState /\ [][C8_TouchesNoRow]_vars

\* C8 witness: a collection failed to open its session after an earlier one
\* had stored a neighbor and a link.
C8_Witness ==
  \E p \in Procs :
    /\ C8_FailedOpen(p)
    /\ procs[p].pc = "done"
    /\ neighbors # {}
    /\ links # <<>>
    /\ devStatus[procs[p].deviceId].status = "error"

\* C9: a single-device collection whose session opened answers with success:
\* success flag set, attempt row completed, device 'online'.
C9_OpenedMeansSuccess ==
  \A p \in Procs :
    (procs[p].kind = "collect" /\ procs[p].opened /\ procs[p].pc = "done") =>
      /\ procs[p].success
      /\ procs[p].http = 200
      /\ \E h \in history :
           h.id = procs[p].historyId /\ h.status = "completed"
      /\ devStatus[procs[p].deviceId].status = "online"

\* C10: attempt rows are created running; a row's status changes only from
\* running to completed or failed; once every request has answered, every
\* row is completed or failed.
C10_Terminal == {"completed", "failed"}

C10_AllEnded ==
  (\A p \in Procs : Free(p)) => \A h \in history : h.status \in C10_Terminal

C10_Forward ==
  /\ \A h \in history :
       \E h2 \in history' :
          /\ h2.id = h.id
          /\ \/ h2.status = h.status
             \/ h.status = "running" /\ h2.status \in C10_Terminal
  /\ \A h2 \in history' :
       (\A h \in history : h.id # h2.id) => h2.status = "running"
  /\ \A h1, h2 \in history' : h1.id = h2.id => h1 = h2

C10_HistoryForwardOnly == []C10_AllEnded /\ [][C10_Forward]_vars

\* C10 witness: a completed row and a failed row of the same device, the
\* later request having answered.
C10_Witness ==
  /\ \A p \in Procs : Free(p)
  /\ \E h1, h2 \in history :
       /\ h1.status = "completed" /\ h2.status = "failed"
       /\ h1.device_id = h2.device_id
       /\ h1.id < h2.id

\* C11: every collection of an existing device that has begun (its attempt
\* row is about to be written) eventually answers, with its attempt row
\* completed or failed.
C11_Ended(p) ==
  /\ procs[p].pc = "done"
  /\ \E h \in history :
       h.id = procs[p].historyId /\ h.status \in {"completed", "failed"}

C12_Current(pr) ==
  IF pr.pc \in {"done", "idle"} THEN <<>> ELSE <<pr.deviceId>>
C12_Plan(pr) ==
  [i \in 1..Len(pr.results) |-> pr.results[i].deviceId]
    \o C12_Current(pr) \o pr.queue

C12_PlanKept ==
  \A p \in Procs :
    (procs[p].kind = "batch" /\ procs'[p].kind = "batch"
       /\ procs[p].pc # "done") =>
      /\ C12_Plan(procs'[p]) = C12_Plan(procs[p])
      /\ Len(procs'[p].results) >= Len(procs[p].results)
      /\ \A i \in 1..Len(procs[p].results) :
           procs'[p].results[i] = procs[p].results[i]

C12_OwnRows(p, d) ==
  { h \in history : /\ h.device_id = d
                    /\ h.id \div 10 = procs[p].historyId \div 10 }

C12_Outcomes ==
  \A p \in Procs :
    At(p, "batch", "done") =>
      /\ procs[p].queue = <<>>
      /\ \A i, j \in 1..Len(procs[p].results) :
           procs[p].results[i].deviceId = procs[p].results[j].deviceId => i = j
      /\ \A i \in 1..Len(procs[p].results) :
           LET r == procs[p].results[i]
           IN  IF HasCredentials(r.deviceId)
                 THEN \E h \in C12_OwnRows(p, r.deviceId) :
                        /\ C12_OwnRows(p, r.deviceId) = {h}
                        /\ h.status = IF r.success THEN "completed" ELSE "failed"
                 ELSE ~r.success /\ C12_OwnRows(p, r.deviceId) = {}

C12_BatchIsolation == []C12_Outcomes /\ [][C12_PlanKept]_vars

\* C12 witness: a batch over all devices answered; device 1 failed to open
\* its session, device 2 after it was collected, device 3 has no credentials.
C12_Witness ==
  \E p \in Procs :
    /\ At(p, "batch", "done")
    /\ Len(procs[p].results) = 3
    /\ procs[p].results[1].deviceId = 1 /\ ~procs[p].results[1].success
    /\ procs[p].results[2].deviceId = 2 /\ procs[p].results[2].success
    /\ procs[p].results[3].deviceId = 3 /\ ~procs[p].results[3].success


\* ---- C13
\* The fixed order of the command block, as the handler's four tests stand.
C13_Fixed == <<"lldp", "ospf", "interfaces", "system">>

C13_Requested(p) ==
  SelectSeq(C13_Fixed, LAMBDA c : \E i \in 1..Len(procs[p].types) : procs[p].types[i] = c)

C13_IsPrefix(a, b) == Len(a) <= Len(b) /\ \A i \in 1..Len(a) : a[i] = b[i]

C13_Ran(p, c) == \E i \in 1..Len(procs[p].executed) : procs[p].executed[i] = c

\* C13 as stated: within one collection the operations execute in the order
\* in which the caller listed them.
C13_CallerOrder ==
  \A p \in Procs :
    procs[p].kind = "collect" => C13_IsPrefix(procs[p].executed, procs[p].types)

\* C13 (amended): within one collection the requested operations execute in
\* the fixed order LLDP, OSPF, interfaces, system, whatever the order the
\* caller listed them in, and a result is present only for the operation
\* that ran and produced it.
C13_FixedOrderAttributed ==
  \A p \in Procs :
    procs[p].kind = "collect" =>
      /\ C13_IsPrefix(procs[p].executed, C13_Requested(p))
      /\ (procs[p].pc \in {"upsertLLDP", "upsertOSPF", "upsertInterface",
                           "updateDevice", "completeHistory"}
            => procs[p].executed = C13_Requested(p))
      /\ (procs[p].lldp # Absent => C13_Ran(p, "lldp"))
      /\ (procs[p].ospf # Absent => C13_Ran(p, "ospf"))
      /\ (procs[p].ifaces # Absent => C13_Ran(p, "interfaces"))
      /\ (procs[p].sys # NoSys => C13_Ran(p, "system"))

C13_Witness ==
  \E p \in Procs :
    /\ At(p, "collect", "completeHistory")
    /\ procs[p].types = <<"system", "lldp">>
    /\ procs[p].executed = <<"lldp", "system">>
    /\ procs[p].lldp # Absent
    /\ procs[p].sys # NoSys

\* ---- C20
C20_ExecPcs == {"execLLDP", "execOSPF", "execInterfaces", "execSystem"}

C20_Position(c) == CHOOSE i \in 1..4 : <<"lldp", "ospf", "interfaces", "system">>[i] = c

C20_InFlight(p) ==
  procs[p].streams + (IF procs[p].pc \in C20_ExecPcs THEN 1 ELSE 0)

C14_Retrying(p) ==
  /\ procs[p].kind = "collect"
  /\ procs[p].pc \notin {"idle", "done"}
  /\ \E r \in history :
       /\ r.device_id = procs[p].deviceId
       /\ r.id # procs[p].historyId
       /\ r.status \in {"completed", "failed"}

\* A neighbor row without its timestamps.
C14_NeighborView(r) ==
  [local_device_id |-> r.local_device_id, local_interface |-> r.local_interface,
   discovery_protocol |-> r.discovery_protocol,
   remote_device_name |-> r.remote_device_name,
   remote_interface |-> r.remote_interface, remote_ip |-> r.remote_ip,
   remote_device_id |-> r.remote_device_id]

C14_Pairs(l) ==
  [i \in 1..Len(l) |-> <<l[i].id, l[i].source_device_id, l[i].target_device_id>>]

C14_RetryStep ==
  (\E p \in Procs : C14_Retrying(p)) =>
     /\ Cardinality(neighbors') = Cardinality(neighbors)
     /\ {C14_NeighborView(r) : r \in neighbors'} = {C14_NeighborView(r) : r \in neighbors}
     /\ C14_Pairs(links') = C14_Pairs(links)

\* C14: running a collection again with the same device output and the same
\* registry inserts no neighbor row and no link row and leaves the key, the
\* remote fields and the resolved remote device of every neighbor row and
\* the device pair of every link as the first run left them.
C14_RetryChangesNothing == [][C14_RetryStep]_vars

\* ---- C19
\* The devices whose hostname or display name equals the reported name once
\* its domain part is cut, case ignored.
C19_ExactMatches(remoteDeviceName) ==
  {d \in DeviceIds :
     \/ LowerStr(Registry[d].hostname) = LowerStr(SplitFirstSegment(remoteDeviceName))
     \/ LowerStr(Registry[d].name) = LowerStr(SplitFirstSegment(remoteDeviceName))}

\* C19: when some device matches the reported name exactly, the resolved
\* device is one of the exact matches, never one that matches only as a
\* substring; the management address is looked up only when no device
\* matches by name.
C19_ExactBeforeSubstring ==
  \A p \in Procs :
    /\ At(p, "collect", "checkLink") /\ C19_ExactMatches(CurLLDP(p).remoteDeviceName) # {}
         => procs[p].remoteDevice \in C19_ExactMatches(CurLLDP(p).remoteDeviceName)
    /\ At(p, "collect", "resolveIP")
         => NameQueryRows(CurLLDP(p).remoteDeviceName) = {}

\* ---- C15
\* The device a request is working on.
C15_Collected(d) ==
  \E p \in Procs :
    /\ procs[p].kind \in {"collect", "batch", "test", "edge"}
    /\ procs[p].pc # "done"
    /\ procs[p].deviceId = d

\* The columns of a device row no request may write.
C15_Fixed(row) ==
  [name |-> row.name, hostname |-> row.hostname, ip_address |-> row.ip_address,
   vendor |-> row.vendor, ssh_username |-> row.ssh_username,
   ssh_password_encrypted |-> row.ssh_password_encrypted]

C15_Step ==
  /\ DOMAIN devStatus' = DOMAIN devStatus
  /\ \A d \in DOMAIN devStatus :
       devStatus'[d] # devStatus[d] =>
         /\ C15_Collected(d)
         /\ C15_Fixed(devStatus'[d]) = C15_Fixed(devStatus[d])

\* C15: a collection, a batch collection or a connection test inserts and
\* deletes no device row, writes the row of the device it works on only,
\* and leaves the name, hostname, address, vendor and credentials of that
\* row as they were: only status, last-seen, model, serial number, OS
\* version and the update timestamp change.
C15_DeviceFrame == [][C15_Step]_vars

C15_Witness ==
  \E p \in Procs :
    /\ procs[p].kind = "edge"
    /\ procs[p].pc = "done"
    /\ procs[p].deviceId \in DeviceIds
    /\ devStatus[procs[p].deviceId].status = "online"
    /\ devStatus[procs[p].deviceId].model = "S5735-L24T4X-A1"
    /\ devStatus[procs[p].deviceId].hostname = Registry[procs[p].deviceId].hostname
    /\ \E d \in DeviceIds : devStatus[d].status = "error"

\* ---- C16
\* The columns of a trimmed line, as intervals <<first, last>>: the maximal
\* stretches that hold no run of k or more whitespace characters.
C16_Blank(t, i, j) == \A x \in i..j : t[x] \in {" ", "\t"}

C16_Intervals(t, k) ==
  {iv \in (1..Len(t)) \X (1..Len(t)) :
     /\ iv[1] <= iv[2]
     /\ t[iv[1]] \notin {" ", "\t"} /\ t[iv[2]] \notin {" ", "\t"}
     /\ (iv[1] = 1 \/ (iv[1] > k /\ C16_Blank(t, iv[1] - k, iv[1] - 1)))
     /\ (iv[2] = Len(t) \/ (iv[2] + k <= Len(t) /\ C16_Blank(t, iv[2] + 1, iv[2] + k)))
     /\ \A x \in iv[1]..(iv[2] - k + 1) : ~C16_Blank(t, x, x + k - 1)}

C16_Column(t, k, n) ==
  LET iv == CHOOSE v \in C16_Intervals(t, k) :
              Cardinality({w \in C16_Intervals(t, k) : w[1] < v[1]}) = n - 1
  IN  SubSeq(t, iv[1], iv[2])

C16_Begins(t, pre) == Len(t) >= Len(pre) /\ \A i \in 1..Len(pre) : t[i] = pre[i]

C16_Header(line) == C16_Begins(Trim(line), <<"L", "o", "c", "a", "l", " ", "I", "n", "t", "f">>)
C16_Skipped(line) == Trim(line) = <<>> \/ C16_Begins(Trim(line), <<"-">>)

\* The interface names the server parser accepts, case ignored.
C16_Accepted(col) ==
  \E pre \in { <<"g", "e">>, <<"x", "g", "e">>, <<"e", "t", "h">>, <<"1", "0", "g", "e">>, <<"4", "0", "g", "e">>, <<"1", "0", "0", "g", "e">>, <<"m", "e", "t", "h">> } :
     C16_Begins(LowerStr(col), pre)

\* A well-formed data line under the column rule of the parser: three
\* columns or more, the first an accepted interface name where the parser
\* filters on it.
C16_WellFormed(line, k) ==
  /\ ~C16_Skipped(line) /\ ~C16_Header(line)
  /\ Cardinality(C16_Intervals(Trim(line), k)) >= 3
  /\ (k = 1 => C16_Accepted(C16_Column(Trim(line), 1, 1)))

\* The output is blank lines, a recognised header, then well-formed data
\* lines, blank lines and separators only.
C16_Block(text, k) ==
  \E h \in 1..Len(text) :
    /\ C16_Header(text[h])
    /\ \A i \in 1..(h - 1) : Trim(text[i]) = <<>>
    /\ \A i \in (h + 1)..Len(text) :
         C16_Skipped(text[i]) \/ C16_WellFormed(text[i], k)

C16_DataLines(text, k) == SelectSeq(text, LAMBDA l : C16_WellFormed(l, k))

C16_Returns(text, k, ret) ==
  /\ Len(ret) = Len(C16_DataLines(text, k))
  /\ \A n \in 1..Len(ret) :
       LET t == Trim(C16_DataLines(text, k)[n])
       IN  /\ ret[n].localInterface = C16_Column(t, k, 1)
           /\ ret[n].remoteDeviceName = C16_Column(t, k, 2)
           /\ ret[n].remoteInterface = C16_Column(t, k, 3)

C16_Rule(fn) == IF fn = "parseHuaweiLLDP" THEN 2 ELSE 1

C17_Functions == {"parseLLDPNeighbors", "parseOSPFNeighbors", "parseInterfaces", "parseSystemInfo"}
C17_Commands == {"getLLDPNeighbors", "getOSPFNeighbors", "getInterfaces", "getSystemInfo", "testConnection"}
C17_OwnParser == {"huawei", "cisco", "juniper", "mikrotik", "datacom"}

\* A parser object: the commands and the four functions, nothing missing.
C17_IsParser(x) ==
  /\ DOMAIN x = C17_Functions \cup {"commands"}
  /\ DOMAIN x.commands = C17_Commands
  /\ \A c \in C17_Commands : x.commands[c] # ""

\* C17: the lookup gives a parser with its four functions and five
\* commands for every value of the vendor column, the parser of the vendor
\* itself where it has one and the Huawei parser for 'other' and for a
\* value the table does not hold.
C17_SelectionTotal ==
  \A p \in Procs :
    /\ procs[p].call.fn = "getVendorParser" =>
         /\ C17_IsParser(procs[p].call.ret)
         /\ \A f \in C17_Functions :
              procs[p].call.ret[f] =
                <<IF procs[p].call.arg.vendor \in C17_OwnParser
                    THEN procs[p].call.arg.vendor ELSE "huawei", f>>
    /\ procs[p].call.fn = "getVendorCommands" =>
         /\ DOMAIN procs[p].call.ret = C17_Commands
         /\ procs[p].call.arg.vendor \notin C17_OwnParser =>
              procs[p].call.ret.getLLDPNeighbors = "display lldp neighbor brief"

C17_Witness ==
  \E p \in Procs :
    /\ procs[p].call.fn = "getVendorParser"
    /\ procs[p].call.arg.vendor = NullText
    /\ procs[p].call.ret.parseLLDPNeighbors = <<"huawei", "parseLLDPNeighbors">>
    /\ procs[p].call.ret.commands.testConnection = "display clock"

\* ---- C18
C18_Within(c, lo, hi) ==
  /\ ~c.nan
  /\ lo * Scale <= c.tenths
  /\ \/ c.tenths < hi * Scale
     \/ c.tenths = hi * Scale /\ c.rest = 0

C18_WitnessSpread ==
  \E p \in Procs :
    /\ procs[p].call.fn = "calculateLayout"
    /\ \E i, j \in 1..Len(procs[p].call.ret) :
         /\ procs[p].call.ret[i].x.tenths = 700 * Scale
         /\ procs[p].call.ret[j].x.tenths = 100 * Scale


\* ---- C21
C21_Result(pr, t) ==
  CASE t = "lldp" -> pr.lldp
    [] t = "ospf" -> pr.ospf
    [] t = "interfaces" -> pr.ifaces
    [] t = "system" -> pr.sys

C21_Requested(pr) == {t \in {"lldp", "ospf", "interfaces", "system"} : Includes(pr.types, t)}
C21_Executed(pr) == {pr.executed[i] : i \in 1..Len(pr.executed)}

\* The step in which the command of operation t resolves.
C21_Resolves(p, t) ==
  /\ procs[p].kind = "collect"
  /\ procs'[p].kind = "collect"
  /\ procs'[p].executed = Append(procs[p].executed, t)

\* C21: a command that fails leaves its operation's result absent, changes
\* no other operation's result and does not end the command block: the
\* handler goes on to a command that was not executed yet or, after the last
\* requested one, to the persistence of a successful collection with every
\* requested operation executed.
C21_FailureDoesNotAbort ==
  [][\A p \in Procs : \A t \in {"lldp", "ospf", "interfaces", "system"} :
       C21_Resolves(p, t) =>
         /\ ~procs'[p].cmdResult.success => ~C21_Result(procs'[p], t).present
         /\ \A u \in {"lldp", "ospf", "interfaces", "system"} \ {t} :
              C21_Result(procs'[p], u) = C21_Result(procs[p], u)
         /\ procs'[p].pc \notin {"failHistory", "errorDevice", "done"}
         /\ \/ /\ procs'[p].pc \in C20_ExecPcs
               /\ \E u \in C21_Requested(procs[p]) \ C21_Executed(procs'[p]) :
                    procs'[p].pc = ExecPc(u)
            \/ /\ procs'[p].success
               /\ C21_Executed(procs'[p]) = C21_Requested(procs[p])]_vars

\* A collection whose LLDP command failed and whose later system command
\* was executed and parsed.
C21_Witness ==
  \E p \in Procs :
    /\ procs[p].kind = "collect"
    /\ procs[p].success
    /\ procs[p].executed = <<"lldp", "system">>
    /\ ~procs[p].lldp.present
    /\ procs[p].sys.present

\* ---- C22
C22_Linked(a, b) == ExistingLinkRows(links, a, b) # {}

\* The neighbor row of the port the collection in slot p is at.
C22_RowAt(p) ==
  {r \in neighbors :
     /\ r.local_device_id = procs[p].deviceId
     /\ r.discovery_protocol = "lldp"
     /\ r.local_interface = CurLLDP(p).localInterface}

\* C22: the steps of neighbor persistence are separate store writes: no
\* step writes both topology_links and topology_neighbors, so the store
\* passes through states in which only one of the two has been written.
C22_SeparateWrites ==
  [][~(links' # links /\ neighbors' # neighbors)]_vars

\* A collection between its link insert and its remote_device_id update,
\* while the other slot serves a request: the link is there, the neighbor
\* row it comes from has no resolved remote device.
C22_Witness ==
  \E p \in Procs, q \in Procs :
    /\ p # q
    /\ At(p, "collect", "setRemoteId")
    /\ C22_Linked(procs[p].deviceId, procs[p].remoteDevice)
    /\ C22_RowAt(p) # {}
    /\ \A r \in C22_RowAt(p) : r.remote_device_id = NoDevice
    /\ ~Free(q)

\* A neighbor row with a resolved remote device and no link between the two
\* devices, while a collection of that device is between two of its writes.
C22_WitnessNoLink ==
  \E p \in Procs :
    /\ procs[p].kind = "collect"
    /\ procs[p].pc \in {"resolveName", "checkLink", "insertLink"}
    /\ \E r \in C22_RowAt(p) :
         /\ r.remote_device_id # NoDevice
         /\ ~C22_Linked(r.local_device_id, r.remote_device_id)

\* ---- C23
\* The neighbor rows a parsed LLDP list stands for are in the store.
C23_NeighborsWritten(pr) ==
  \A i \in 1..Len(pr.lldp.items) :
    \E r \in neighbors :
      /\ r.local_device_id = pr.deviceId
      /\ r.discovery_protocol = "lldp"
      /\ r.local_interface = pr.lldp.items[i].localInterface

\* C23: a device collected by the batch gets the writes a single-device
\* collection makes: when the handler reaches the device's status update
\* with parsed LLDP neighbors, their rows have been written.
C23_BatchWritesAsSingle ==
  \A p \in Procs :
    /\ procs[p].pc \in {"updateDevice", "bUpdateDevice"}
    /\ NonEmpty(procs[p].lldp)
    => C23_NeighborsWritten(procs[p])

\* The same for the single-device collection alone.
C23_SingleWrites ==
  \A p \in Procs :
    /\ procs[p].pc = "updateDevice"
    /\ NonEmpty(procs[p].lldp)
    => C23_NeighborsWritten(procs[p])

\* ---- C24
\* The lines of the output from which a record may come: the non-blank,
\* non-separator lines after the first header line.
C24_AfterHeader(text) ==
  {i \in 1..Len(text) :
     /\ \E h \in 1..(i - 1) : C16_Header(text[h])
     /\ ~C16_Skipped(text[i]) /\ ~C16_Header(text[i])}

\* C24: a Huawei neighbor parser returns at most one record for each data
\* line after the header line and none for a line before it, so an output
\* without a header line gives the empty list.
C24_SeeksHeader ==
  \A p \in Procs :
    procs[p].call.fn \in {"parseLLDPNeighbors", "parseHuaweiLLDP"} =>
      Len(procs[p].call.ret) <= Cardinality(C24_AfterHeader(procs[p].call.arg.rawOutput))

\* The same for the parser of the edge function alone.
C24_EdgeSeeksHeader ==
  \A p \in Procs :
    procs[p].call.fn = "parseHuaweiLLDP" =>
      Len(procs[p].call.ret) <= Cardinality(C24_AfterHeader(procs[p].call.arg.rawOutput))

\* ---- C25
\* The step in which a command of the collection in slot p resolves and the
\* handler issues its next command.
C25_ResolvesAndIssues(p) ==
  /\ procs[p].kind = "collect"
  /\ procs'[p].kind = "collect"
  /\ Len(procs'[p].executed) = Len(procs[p].executed) + 1
  /\ procs'[p].pc \in {"execLLDP", "execOSPF", "execInterfaces", "execSystem"}

\* C25: a settling delay lies between two consecutive commands of a
\* collection: the clock has advanced between the moment a command resolved
\* and the moment the next command is issued.
C25_SettlingDelay ==
  [][\A p \in Procs : C25_ResolvesAndIssues(p) => now' > now]_vars

\* ---- C26
\* The repulsion loops of n iterations from `nodes` on all use distances of
\* at least 1.
RECURSIVE C26_FloorHeld(_, _, _)
C26_FloorHeld(nodes, edges, n) ==
  \/ n = 0
  \/ /\ \A a \in 1..Len(nodes), b \in 1..Len(nodes) :
          a < b => Dist(nodes[b].x - nodes[a].x, nodes[b].y - nodes[a].y) >= 1 * Scale
     /\ LET moved == LayoutIteration(nodes, edges)
        IN  moved = moved /\ C26_FloorHeld(moved, edges, n - 1)

\* C26: in every iteration of calculateLayout the distance the repulsion
\* of a pair is computed from is at least 1, so the force on a pair is at
\* most the repulsion constant.
C26_DistanceFloor ==
  \A p \in Procs :
    procs[p].call.fn = "calculateLayout" =>
      C26_FloorHeld(LayoutClone(procs[p].call.arg.nodes),
                    procs[p].call.arg.edges, iterations)

\* ---- C27
\* C27: no link created by inference (the collection or the auto-links
\* sweep) joins a device to itself.
C27_NoSelfLink ==
  \A i \in 1..Len(links) :
    links[i].auto_created => links[i].source_device_id # links[i].target_device_id

\* The devices a stored neighbor row resolves to: by its remote name and,
\* when it has an address, by the address.
C28_Resolved(r) ==
  NameQueryRows(r.remote_device_name) \cup
  (IF r.remote_ip = NullInet THEN {}
   ELSE IPQueryRows([addr |-> r.remote_ip.addr, mask |-> ""]) \cup
        IPQueryRows([addr |-> r.remote_ip.addr, mask |-> "/32"]))

\* C28: when a collection has completed, every LLDP neighbor row of the
\* collected device refers to no device or to a device its current remote
\* name or address resolves to; a port seen again under a name that
\* resolves to nothing does not keep the earlier reference.
C28_ReferenceIsCurrent ==
  \A p \in Procs :
    At(p, "collect", "done") /\ procs[p].http = 200 =>
      \A r \in neighbors :
        r.local_device_id = procs[p].deviceId /\ r.discovery_protocol = "lldp" =>
          r.remote_device_id = NoDevice \/ r.remote_device_id \in C28_Resolved(r)

\* The link row the refresh of request p addresses, before and after it.
C29_Row(ls, p) == CHOOSE i \in 1..Len(ls) : ls[i].id = procs[p].existingLink

\* The refresh of request p has run on a row that exists.
C29_Refreshed(p) ==
  /\ At(p, "collect", "updateLink")
  /\ procs'[p].pc = "setRemoteId"
  /\ \E i \in 1..Len(links) : links[i].id = procs[p].existingLink

\* The interfaces of the refreshed row, as <<collecting side, remote side>>.
C29_Sides(row, p) ==
  IF row.source_device_id = procs[p].deviceId
    THEN <<row.source_interface, row.target_interface>>
    ELSE <<row.target_interface, row.source_interface>>

\* C29: a refresh of an existing link writes the collecting device's local
\* interface to the side of the row that is the collecting device and the
\* reported remote interface to the side that is the remote device, also
\* when the row is stored in the opposite direction.
C29_InterfacesKeepSides ==
  [][\A p \in Procs :
       C29_Refreshed(p) =>
         C29_Sides(links'[C29_Row(links, p)], p) =
           <<CurLLDP(p).localInterface,
             Coalesce(CurLLDP(p).remoteInterface,
                      C29_Sides(links[C29_Row(links, p)], p)[2])>>]_vars

\* The refresh of a row stored in the direction of the collection does so.
C29_SameDirectionKeepsSides ==
  [][\A p \in Procs :
       C29_Refreshed(p) /\
       links[C29_Row(links, p)].source_device_id = procs[p].deviceId =>
         /\ links'[C29_Row(links, p)].source_interface = CurLLDP(p).localInterface
         /\ links'[C29_Row(links, p)].target_interface =
              Coalesce(CurLLDP(p).remoteInterface,
                       links[C29_Row(links, p)].target_interface)]_vars

\* validateSchema has run in slot p.
C30_Validated(p) == procs[p].call.fn = "validateSchema"

\* C30: whenever validateSchema succeeds, topology_neighbors carries a
\* unique constraint on exactly (local_device_id, local_interface,
\* discovery_protocol), so that the conflict target of the neighbor upsert
\* is enforced; a schema whose only unique constraint also includes
\* remote_device_name is rejected.
C30_PassImpliesExactConstraint ==
  \A p \in Procs :
    C30_Validated(p) /\ procs[p].call.ret.ok =>
      ConflictTargetEnforced(procs[p].call.arg)

\* The schema of the API's init script passes and its upsert is enforced.
C30_InitSchemaPasses ==
  \A p \in Procs :
    C30_Validated(p) /\ procs[p].call.arg =
      [tables |-> REQUIRED_TABLES, columns |-> REQUIRED_NEIGHBOR_COLUMNS,
       uniques |-> {UniqueInit}] =>
        procs[p].call.ret.ok /\ ConflictTargetEnforced(procs[p].call.arg)
=============================================================================
